---- MODULE Spec2Model ----
(***************************************************************************)
(* Duplicate-safe ingestion and monthly aggregation of the personal        *)
(* finance tracker: TransactionRepository (save_many, update,              *)
(* assign_ranks_within_batch, is_duplicate), MonthlySummaryRepository      *)
(* (update_from_transactions, save), MonthlySummary.calculate_totals and   *)
(* the handlers confirm_upload and update_transaction that drive them.     *)
(*                                                                         *)
(* Amounts are integers counted in thousandths of a dollar, so that        *)
(* round(x, 2) is a real operation (Round2).  An md5 digest is modelled by *)
(* the tuple of the fields that are hashed (a collision-free digest).      *)
(***************************************************************************)
EXTENDS Integers, Sequences, FiniteSets, TLC

\* ------------------------------------------------------------------ bounds
MaxBatch   == 3     \* longest upload batch
MaxUploads == 2     \* confirm_upload calls in a behaviour of Spec
MaxRetries == 3     \* confirm_upload calls in a behaviour of SpecRetry
MaxEdits   == 1     \* number of update_transaction calls in a behaviour
MaxImports == 1     \* number of import_historical_data calls in a behaviour
MaxRaceBatch == 1    \* rows in a batch of an overlapping upload
MaxRaceUploads == 2  \* confirm_upload calls of the overlapping handlers
MaxRepoBatch == 2    \* rows in a batch handed to save_many directly
MaxRepoIds == 2      \* batch ids and timestamps a caller of save_many passes
MaxRepoCalls == 3    \* save_many calls of that caller
MaxSessionBatch == 2    \* rows of an upload session with rows of any kind
MaxSessionUploads == 2  \* confirm_upload calls on such sessions
MaxColumnBatch == 2     \* rows of a batch from files of either Amount column type
MaxHashed == 2          \* rows hashed by create_base_hash in a behaviour
MaxSnapshots == 2       \* rows of portfolio_balances when the detector is called
MaxStore   == 3     \* most transactions persisted in a behaviour
MaxPortfolioCalls == 3  \* requests to the portfolio router in a behaviour
MaxFiles == 2           \* files of one preview_upload
MaxFileRows == 1        \* rows of a previewed file
MaxTime == 4            \* half hours a behaviour of previews and confirmations lasts

\* ------------------------------------------------------- reference data
\* Category names of the configuration (the names the Category flags test).
Categories == {"Food", "Pay", "Acorns"}

\* Category.is_investment
IsInvestment(name) == name \in {"Acorns", "Wealthfront", "Robinhood", "Schwab"}

\* Category.is_income
IsIncome(name) == name = "Pay"

\* Category.is_payment
IsPayment(name) == name = "Payment"

MonthNames == <<"January", "February", "March", "April", "May", "June", "July",
                "August", "September", "October", "November", "December">>

DateJan == [year |-> 2024, month |-> 1, day |-> 15]
DateFeb == [year |-> 2024, month |-> 2, day |-> 10]

\* date.strftime('%Y-%m'): the month key of a transaction
MonthStr(d) == <<d.year, d.month>>

\* date.strftime('%m/%d/%Y'): the date as it enters the base hash
StdDate(d) == <<d.month, d.day, d.year>>

\* parse_month_period: month key 'YYYY-MM' to year, month name and the
\* 'Month YYYY' key of the monthly_summary table
ParseMonthPeriod(m) ==
    [year |-> m[1], month_name |-> MonthNames[m[2]], month_year |-> <<MonthNames[m[2]], m[1]>>]

\* A Decimal: its value in thousandths and the number of digits str() writes
\* after the point (Decimal('4.50') is Dec(4500, 2), Decimal('45') is Dec(45000, 0))
Dec(val, scale) == [val |-> val, scale |-> scale]

\* str(x) of a float x: the shortest form, with one digit after the point at least
FloatScale(val) == IF val % 100 = 0 THEN 1 ELSE IF val % 10 = 0 THEN 2 ELSE 3

\* Decimal(str(x)) of a float x, as standardize_amount and
\* _create_transaction_from_row build it
FromFloat(val) == Dec(val, FloatScale(val))

\* The rows of an upload session (Date, Description, Amount, Category,
\* source), from a file whose Amount column pandas read as float64
RowPool ==
    { [date |-> DateJan, description |-> "COFFEE",  amount |-> FromFloat(4500),  category |-> "Food", source |-> "chase"],
      [date |-> DateJan, description |-> "PAYROLL", amount |-> FromFloat(-9000), category |-> "Pay",  source |-> "chase"] }

RECURSIVE SeqsUpTo(_, _)
SeqsUpTo(S, n) ==
    IF n = 0 THEN {<<>>}
    ELSE LET shorter == SeqsUpTo(S, n - 1)
         IN  shorter \cup {Append(s, x) : s \in {q \in shorter : Len(q) = n - 1}, x \in S}

\* The non-empty batches an upload session can hold
Batches == SeqsUpTo(RowPool, MaxBatch) \ {<<>>}

\* ------------------------------------------------------------------ hashes
\* Transaction.create_base_hash: the digest of
\* f"{standardized_date}|{description}|{amount}|{source}", amount a Decimal
\* written by str()
CreateBaseHash(date, description, amount, source) ==
    <<"base", StdDate(date), description, amount, source>>

\* Transaction.create_hash
CreateHash(date, description, amount, source, rank, import_batch_id) ==
    <<"full", CreateBaseHash(date, description, amount, source), rank, import_batch_id>>

\* ------------------------------------------------------------- arithmetic
Abs(x) == IF x < 0 THEN -x ELSE x

\* round(x, 2) on an amount counted in thousandths
Round2(x) ==
    LET a == Abs(x)
        q == a \div 10
        r == a % 10
        up == IF r > 5 \/ (r = 5 /\ q % 2 = 1) THEN (q + 1) * 10 ELSE q * 10
    IN  IF x < 0 THEN -up ELSE up

RECURSIVE SumSeq(_, _)
SumSeq(s, i) == IF i > Len(s) THEN 0 ELSE s[i] + SumSeq(s, i + 1)

RECURSIVE SumOver(_, _)
SumOver(f, S) ==
    IF S = {} THEN 0
    ELSE LET x == CHOOSE y \in S : TRUE IN f[x] + SumOver(f, S \ {x})

EmptyMap == [x \in {} |-> {}]

\* ------------------------------------------------ TransactionRepository
\* Transaction(...) as confirm_upload builds it from a session row:
\* __post_init__ derives month_str and base_hash
NewTransaction(row, import_batch_id, import_timestamp) ==
    [date |-> row.date, description |-> row.description, amount |-> row.amount,
     category |-> row.category, source |-> row.source,
     month |-> MonthStr(row.date),
     base_hash |-> CreateBaseHash(row.date, row.description, row.amount, row.source),
     transaction_hash |-> <<>>,
     rank_within_batch |-> 0,
     import_batch_id |-> import_batch_id,
     import_timestamp |-> import_timestamp]

RECURSIVE PositionsOf(_, _, _)
\* base_hash_groups[h]: the positions of the batch with base hash h, in batch order
PositionsOf(txs, h, i) ==
    IF i > Len(txs) THEN <<>>
    ELSE IF txs[i].base_hash = h THEN <<i>> \o PositionsOf(txs, h, i + 1)
    ELSE PositionsOf(txs, h, i + 1)

\* assign_ranks_within_batch numbering the rows of the whole batch, not of
\* each base_hash group
AssignRanksByPosition(txs, import_batch_id, import_timestamp) ==
    [i \in 1..Len(txs) |->
        [txs[i] EXCEPT !.rank_within_batch = i,
                       !.import_batch_id = import_batch_id,
                       !.import_timestamp = import_timestamp,
                       !.transaction_hash =
                           CreateHash(txs[i].date, txs[i].description, txs[i].amount,
                                      txs[i].source, i, import_batch_id)]]

\* assign_ranks_within_batch without the ranking: every row gets rank 1
AssignRanksAllFirst(txs, import_batch_id, import_timestamp) ==
    [i \in 1..Len(txs) |->
        [txs[i] EXCEPT !.rank_within_batch = 1,
                       !.import_batch_id = import_batch_id,
                       !.import_timestamp = import_timestamp,
                       !.transaction_hash =
                           CreateHash(txs[i].date, txs[i].description, txs[i].amount,
                                      txs[i].source, 1, import_batch_id)]]

\* assign_ranks_within_batch: enumerate(tx_group, 1) within each base_hash
\* group, stamp batch id and timestamp, generate_full_hash
AssignRanksWithinBatch(txs, import_batch_id, import_timestamp) ==
    [i \in 1..Len(txs) |->
        LET group == PositionsOf(txs, txs[i].base_hash, 1)
            rank  == CHOOSE k \in 1..Len(group) : group[k] = i
        IN  [txs[i] EXCEPT !.rank_within_batch = rank,
                           !.import_batch_id = import_batch_id,
                           !.import_timestamp = import_timestamp,
                           !.transaction_hash =
                               CreateHash(txs[i].date, txs[i].description, txs[i].amount,
                                          txs[i].source, rank, import_batch_id)]]

\* find_by_base_hash_and_rank with the rank left out of the WHERE clause
FindByBaseHashOnly(store, base_hash, rank) ==
    {store[i] : i \in {j \in 1..Len(store) : store[j].base_hash = base_hash}}

\* find_by_base_hash_and_rank: the rows the query matches; fetchone() returns
\* one of them (no ORDER BY)
FindByBaseHashAndRank(store, base_hash, rank) ==
    {store[i] : i \in {j \in 1..Len(store) :
                        store[j].base_hash = base_hash /\ store[j].rank_within_batch = rank}}

\* is_duplicate with the timestamp comparison inverted
IsDuplicateSameStamp(store, t) ==
    LET found == FindByBaseHashAndRank(store, t.base_hash, t.rank_within_batch)
    IN  IF found = {} THEN {FALSE}
        ELSE {existing.import_timestamp = t.import_timestamp : existing \in found}

\* is_duplicate answering on the (base_hash, rank) match alone, whatever the
\* timestamps
IsDuplicateAnyMatch(store, t) ==
    {FindByBaseHashAndRank(store, t.base_hash, t.rank_within_batch) # {}}

\* is_duplicate: the answers the check can give for transaction t (a rank of
\* 0 stands for rank_within_batch = None: the method returns False at once;
\* fetchone() hands back any one of the rows the query matches)
IsDuplicateOutcomes(store, t) ==
    LET found == FindByBaseHashAndRank(store, t.base_hash, t.rank_within_batch)
    IN  IF t.rank_within_batch = 0 \/ found = {} THEN {FALSE}
        ELSE {existing.import_timestamp # t.import_timestamp : existing \in found}

\* Column(transaction_hash, unique=True): the insert raises IntegrityError
TransactionHashTaken(store, t) ==
    \E i \in 1..Len(store) : store[i].transaction_hash = t.transaction_hash

\* session.add(TransactionModel(...)); session.commit()
InsertTransaction(store, t) ==
    Append(store,
        [id |-> Len(store) + 1, date |-> t.date, description |-> t.description,
         amount |-> t.amount.val, category |-> t.category, source |-> t.source,
         month |-> t.month, transaction_hash |-> t.transaction_hash,
         import_timestamp |-> t.import_timestamp,
         rank_within_batch |-> t.rank_within_batch,
         import_batch_id |-> t.import_batch_id, base_hash |-> t.base_hash])

\* affected_data[month] = {category}: the month's set replaced, not extended
AddAffectedReplacing(affected, month, category) ==
    [m \in DOMAIN affected \cup {month} |->
        IF m = month THEN {category} ELSE affected[m]]

\* affected_data[month].add(category)
AddAffected(affected, month, category) ==
    [m \in DOMAIN affected \cup {month} |->
        IF m = month
        THEN (IF m \in DOMAIN affected THEN affected[m] ELSE {}) \cup {category}
        ELSE affected[m]]

\* The state of the save_many loop before any row
SaveManyStart(store) ==
    [store |-> store, records_added |-> 0, affected_data |-> EmptyMap,
     duplicate_hashes |-> <<>>, saved |-> {}, raised |-> FALSE,
     conflicts |-> {}, fault |-> 0]

\* The save_many loop body counting a row whose insert hit IntegrityError as
\* saved
SaveManyRowCountingConflict(st, t, i, is_dup, fault) ==
    IF is_dup
    THEN [st EXCEPT !.duplicate_hashes = Append(@, t.base_hash)]
    ELSE IF fault
    THEN [st EXCEPT !.raised = TRUE, !.fault = i]
    ELSE IF TransactionHashTaken(st.store, t)
    THEN [st EXCEPT !.records_added = @ + 1,
                    !.affected_data = AddAffected(@, t.month, t.category),
                    !.conflicts = @ \cup {i}]
    ELSE [st EXCEPT !.store = InsertTransaction(@, t),
                    !.records_added = @ + 1,
                    !.affected_data = AddAffected(@, t.month, t.category),
                    !.saved = @ \cup {i}]

\* One pass of the save_many loop body on row i, given the answer of
\* is_duplicate and whether the commit hits a transient fault.  saved,
\* conflicts and fault record which rows were inserted, which hit
\* IntegrityError and which hit the fault.
SaveManyRow(st, t, i, is_dup, fault) ==
    IF is_dup
    THEN [st EXCEPT !.duplicate_hashes = Append(@, t.base_hash)]
    ELSE IF fault
    THEN [st EXCEPT !.raised = TRUE, !.fault = i]
    ELSE IF TransactionHashTaken(st.store, t)
    THEN [st EXCEPT !.duplicate_hashes = Append(@, t.base_hash),
                    !.conflicts = @ \cup {i}]
    ELSE [st EXCEPT !.store = InsertTransaction(@, t),
                    !.records_added = @ + 1,
                    !.affected_data = AddAffected(@, t.month, t.category),
                    !.saved = @ \cup {i}]

RECURSIVE SaveManyFrom(_, _, _, _)
\* The save_many loop from row i on: the set of states it can end in.
\* failAt is the row whose commit hits a transient fault (0: none)
SaveManyFrom(txs, i, st, failAt) ==
    IF i > Len(txs) \/ st.raised THEN {st}
    ELSE UNION { SaveManyFrom(txs, i + 1, SaveManyRow(st, txs[i], i, is_dup, failAt = i), failAt)
                 : is_dup \in IsDuplicateOutcomes(st.store, txs[i]) }

\* save_many
SaveMany(store, rows, import_batch_id, import_timestamp, failAt) ==
    LET txs == AssignRanksWithinBatch(
                   [i \in 1..Len(rows) |-> NewTransaction(rows[i], import_batch_id, import_timestamp)],
                   import_batch_id, import_timestamp)
    IN  SaveManyFrom(txs, 1, SaveManyStart(store), failAt)

\* --------------------------------------------- MonthlySummaryRepository
\* SELECT SUM(amount) FROM transactions WHERE month = :month AND
\* category = :category GROUP BY category: no row when nothing matches
MatchingRows(store, month, category) ==
    {i \in 1..Len(store) : store[i].month = month /\ store[i].category = category}

SumAmounts(store, month, category) ==
    SumOver([i \in 1..Len(store) |-> store[i].amount], MatchingRows(store, month, category))

\* The value update_from_transactions writes into category_totals[category]
CategoryTotal(store, month, category) ==
    LET total == SumAmounts(store, month, category)
    IN  Round2(IF category \in {"Pay", "Payment"} THEN Abs(total) ELSE total)

\* update_from_transactions adding the sum to the stored total instead of
\* overwriting it
ResumCategoriesIncremental(category_totals, store, month, affected_categories) ==
    LET hit == {c \in affected_categories : MatchingRows(store, month, c) # {}}
    IN  [c \in DOMAIN category_totals \cup hit |->
            IF c \in hit
            THEN (IF c \in DOMAIN category_totals THEN category_totals[c] ELSE 0)
                 + CategoryTotal(store, month, c)
            ELSE category_totals[c]]

\* The loop over sorted(affected_categories): overwrite the total of every
\* affected category the query returns a row for
ResumCategories(category_totals, store, month, affected_categories) ==
    LET hit == {c \in affected_categories : MatchingRows(store, month, c) # {}}
    IN  [c \in DOMAIN category_totals \cup hit |->
            IF c \in hit THEN CategoryTotal(store, month, c) ELSE category_totals[c]]

\* calculate_totals with Pay and Payment counted in the total
CalculateTotalsWithIncome(summary) ==
    LET investment_categories == {name \in Categories : IsInvestment(name)}
        totals == summary.category_totals
        investment_total ==
            SumOver([c \in investment_categories |->
                        IF c \in DOMAIN totals THEN totals[c] ELSE 0], investment_categories)
        total == SumOver(totals, DOMAIN totals)
    IN  [summary EXCEPT !.investment_total = investment_total,
                        !.total = total,
                        !.total_minus_invest = total - investment_total]

\* MonthlySummary.calculate_totals
CalculateTotals(summary) ==
    LET investment_categories == {name \in Categories : IsInvestment(name)}
        totals == summary.category_totals
        investment_total ==
            SumOver([c \in investment_categories |->
                        IF c \in DOMAIN totals THEN totals[c] ELSE 0], investment_categories)
        total == SumOver(totals, {c \in DOMAIN totals : c \notin {"Pay", "Payment"}})
    IN  [summary EXCEPT !.investment_total = investment_total,
                        !.total = total,
                        !.total_minus_invest = total - investment_total]

\* find_by_month_year: the rows the query matches
FindByMonthYear(summaries, month_year) ==
    {i \in 1..Len(summaries) : summaries[i].month_year = month_year}

\* The monthly_summary table without the unique constraint on month_year
MonthYearNeverTaken(summaries, month_year) == FALSE

\* Column('month_year', String, unique=True): the insert raises IntegrityError
MonthYearTaken(summaries, month_year) ==
    FindByMonthYear(summaries, month_year) # {}

\* MonthlySummary(month, year, month_year, category_totals={})
NewSummary(month_period) ==
    LET info == ParseMonthPeriod(month_period)
    IN  [month |-> info.month_name, year |-> info.year, month_year |-> info.month_year,
         category_totals |-> EmptyMap, investment_total |-> 0, total |-> 0,
         total_minus_invest |-> 0]

\* The summary update_from_transactions starts from: the stored row's
\* non-null category columns (_map_to_domain_entity), or a new summary
CurrentSummary(summaries, month_period) ==
    LET found == FindByMonthYear(summaries, ParseMonthPeriod(month_period).month_year)
    IN  IF found = {} THEN NewSummary(month_period)
        ELSE LET row == summaries[CHOOSE i \in found : \A j \in found : i <= j]
             IN  [month |-> row.month, year |-> row.year, month_year |-> row.month_year,
                  category_totals |-> row.category_totals,
                  investment_total |-> row.investment_total, total |-> row.total,
                  total_minus_invest |-> row.total_minus_invest]

\* save, UPDATE branch: SET every key of update_data WHERE id = :id; the
\* category columns that are not keys of summary.category_totals keep their value
UpdateSummaryRow(summaries, id, summary) ==
    [summaries EXCEPT ![id] =
        [id |-> id, month |-> summary.month, year |-> summary.year,
         month_year |-> @.month_year,
         category_totals |->
            [c \in DOMAIN @.category_totals \cup DOMAIN summary.category_totals |->
                IF c \in DOMAIN summary.category_totals
                THEN summary.category_totals[c] ELSE @.category_totals[c]],
         investment_total |-> summary.investment_total, total |-> summary.total,
         total_minus_invest |-> summary.total_minus_invest]]

\* save, INSERT branch
InsertSummaryRow(summaries, summary) ==
    Append(summaries,
        [id |-> Len(summaries) + 1, month |-> summary.month, year |-> summary.year,
         month_year |-> summary.month_year, category_totals |-> summary.category_totals,
         investment_total |-> summary.investment_total, total |-> summary.total,
         total_minus_invest |-> summary.total_minus_invest])

\* The columns of the monthly_summary table besides id, month, year,
\* month_year and the three totals: one per configured category
SummaryColumns == Categories

\* save: the UPDATE or INSERT names a column per key of category_totals, and
\* the statement fails (no such column) when the table lacks one
SaveRaises(summary) == DOMAIN summary.category_totals \ SummaryColumns # {}

\* MonthlySummaryRepository.save run without interleaving: the existence
\* check, then UPDATE or INSERT
Save(summaries, summary) ==
    LET existing == FindByMonthYear(summaries, summary.month_year)
    IN  IF existing # {}
        THEN UpdateSummaryRow(summaries, CHOOSE i \in existing : \A j \in existing : i <= j, summary)
        ELSE InsertSummaryRow(summaries, summary)

\* The body of the month loop of update_from_transactions
RecomputeMonth(summaries, store, month_period, affected_categories) ==
    LET current == CurrentSummary(summaries, month_period)
        resummed == [current EXCEPT !.category_totals =
                        ResumCategories(@, store, month_period, affected_categories)]
    IN  Save(summaries, CalculateTotals(resummed))

\* Whether the save of the month loop's body raises
RecomputeRaises(summaries, store, month_period, affected_categories) ==
    LET current == CurrentSummary(summaries, month_period)
        resummed == [current EXCEPT !.category_totals =
                        ResumCategories(@, store, month_period, affected_categories)]
    IN  SaveRaises(CalculateTotals(resummed))

RECURSIVE UpdateFromTransactionsInOrder(_, _, _, _, _)
\* update_from_transactions over affected_months.items() in the order of the
\* dict, from its i-th month on: the exception of save leaves the loop, the
\* months saved before it stay saved
UpdateFromTransactionsInOrder(summaries, store, affected_months, order, i) ==
    IF i > Len(order) THEN [summaries |-> summaries, raised |-> FALSE]
    ELSE IF RecomputeRaises(summaries, store, order[i], affected_months[order[i]])
    THEN [summaries |-> summaries, raised |-> TRUE]
    ELSE UpdateFromTransactionsInOrder(
             RecomputeMonth(summaries, store, order[i], affected_months[order[i]]),
             store, affected_months, order, i + 1)

RECURSIVE UpdateFromTransactionsOver(_, _, _, _)
UpdateFromTransactionsOver(summaries, store, affected_months, months) ==
    IF months = {} THEN summaries
    ELSE LET m == CHOOSE x \in months : TRUE
         IN  UpdateFromTransactionsOver(
                 RecomputeMonth(summaries, store, m, affected_months[m]),
                 store, affected_months, months \ {m})

\* update_from_transactions
UpdateFromTransactions(summaries, store, affected_months) ==
    UpdateFromTransactionsOver(summaries, store, affected_months, DOMAIN affected_months)

\* ----------------------------------------------- TransactionRepository.update
Get(updates, key, default) == IF key \in DOMAIN updates THEN updates[key] ELSE default

\* The edits update_transaction is called with
UpdateChoices ==
    { [category |-> "Acorns"],
      [category |-> "Food"],
      [date |-> DateFeb],
      [amount |-> FromFloat(-4500)],
      [date |-> DateJan, description |-> "COFFEE", amount |-> FromFloat(4500), source |-> "chase"] }

\* update: the row as the UPDATE statement leaves it
UpdatedRow(existing, updates) ==
    LET new_date == Get(updates, "date", existing.date)
        new_description == Get(updates, "description", existing.description)
        new_amount == Get(updates, "amount", FromFloat(existing.amount))
        new_source == Get(updates, "source", existing.source)
        new_base_hash == CreateBaseHash(new_date, new_description, new_amount, new_source)
    IN  [existing EXCEPT !.date = new_date, !.description = new_description,
                         !.amount = new_amount.val,
                         !.category = Get(updates, "category", existing.category),
                         !.source = new_source, !.month = MonthStr(new_date),
                         !.transaction_hash = new_base_hash, !.base_hash = new_base_hash]

\* update: SELECT id FROM transactions WHERE transaction_hash = :hash AND id != :current_id
UpdateWouldDuplicate(store, id, new_hash) ==
    \E i \in 1..Len(store) : store[i].transaction_hash = new_hash /\ store[i].id # id

\* update: the months whose summaries the edit touches
UpdateAffectedMonths(existing, updates) ==
    {existing.month, MonthStr(Get(updates, "date", existing.date))}

\* update: "ok" with the new store, or the ValueError it raises
Update(store, id, updates) ==
    IF id \notin 1..Len(store) THEN [result |-> "not found", store |-> store]
    ELSE LET row == UpdatedRow(store[id], updates)
         IN  IF UpdateWouldDuplicate(store, id, row.transaction_hash)
             THEN [result |-> "duplicate", store |-> store]
             ELSE [result |-> "ok", store |-> [store EXCEPT ![id] = row]]

\* update_transaction: affected_data[month] = set(import_service.categories.keys())
AllCategoriesOf(months) == [m \in months |-> Categories]

\* ------------------------------------------- ImportService.import_historical_data
\* date_obj.strftime('%B'), date_obj.year, date_obj.strftime('%B %Y')
MonthYearOf(d) == <<MonthNames[d.month], d.year>>

\* The Expenses sheets of the workbook: the category columns it has and its
\* month rows (a missing cell reads as 0)
Sheets ==
    { [columns |-> {"Food", "Acorns"},
       rows |-> << [date |-> DateJan, cells |-> [Food |-> -3000, Acorns |-> 0]] >>],
      [columns |-> {"Food", "Pay", "Acorns"},
       rows |-> << [date |-> DateJan, cells |-> [Food |-> 12004, Pay |-> 9000, Acorns |-> 2500]],
                   [date |-> DateJan, cells |-> [Food |-> 0, Pay |-> 0, Acorns |-> -2500]] >>] }

\* The summary import_historical_data builds from one sheet row
SheetSummary(sheet, i) ==
    LET row == sheet.rows[i]
    IN  CalculateTotals(
            [month |-> MonthNames[row.date.month], year |-> row.date.year,
             month_year |-> MonthYearOf(row.date),
             category_totals |->
                [c \in Categories \cap sheet.columns |-> Round2(row.cells[c])],
             investment_total |-> 0, total |-> 0, total_minus_invest |-> 0])

RECURSIVE ImportSheetFrom(_, _, _)
\* The row loop of import_historical_data
ImportSheetFrom(summaries, sheet, i) ==
    IF i > Len(sheet.rows) THEN summaries
    ELSE ImportSheetFrom(Save(summaries, SheetSummary(sheet, i)), sheet, i + 1)

\* ------------------------------------------------------------------- state
VARIABLES
    transactions,     \* the transactions table, in id order
    monthly_summary,  \* the monthly_summary table, in id order
    clock,            \* source of uuid4() batch ids and datetime.now() timestamps
    edits,            \* update_transaction calls so far
    imports,          \* import_historical_data calls so far
    lastOp,           \* the handler that ran last
    upload,           \* what the last confirm_upload was given and returned
    edit,             \* what the last update_transaction was given and did
    recomputed,       \* affected_months of the update_from_transactions the last handler ran
    completed,        \* batches confirmed to completion, identities not edited since
    pending,          \* the batch whose confirm_upload raised, not yet retried to completion
    proc,             \* the confirm_upload each server process is in the middle of
    call,             \* the last call of a repository or service method, and what it returned
    portfolio_balances,  \* the portfolio_balances table
    statement_uploads,   \* the statement_uploads table
    upload_sessions      \* the upload_sessions dict of the transactions router

vars == <<transactions, monthly_summary, clock, edits, imports, lastOp, upload, edit,
          recomputed, completed, pending, proc, call, portfolio_balances,
          statement_uploads, upload_sessions>>

\* The state the transaction handlers below never touch
elsewhere == <<portfolio_balances, statement_uploads, upload_sessions>>

NoUpload ==
    [rows |-> <<>>, bid |-> 0, raised |-> FALSE, records_added |-> 0,
     affected_data |-> EmptyMap, duplicate_hashes |-> <<>>, saved |-> {},
     stored_before |-> {}, known_before |-> {}, reupload |-> FALSE, retry |-> FALSE,
     failed_saved |-> {}, bids |-> {}, fault |-> 0]

NoEdit == [id |-> 0, updates |-> <<>>, result |-> "none", before |-> <<>>, after |-> <<>>]

NoPending == [rows |-> <<>>, saved |-> {}, bids |-> {}]

NoCall == [op |-> "none"]

\* The server processes that share the database file
Procs == {1, 2}

\* A process with no confirm_upload under way
IdleProc ==
    [pc |-> "idle", txs |-> <<>>, i |-> 0, records_added |-> 0,
     affected_data |-> EmptyMap, duplicate_hashes |-> <<>>, saved |-> {},
     months |-> {}, month |-> <<>>, cats |-> {}, summary |-> <<>>, existing |-> 0]

Init ==
    /\ transactions = <<>>
    /\ monthly_summary = <<>>
    /\ clock = 1
    /\ edits = 0
    /\ imports = 0
    /\ lastOp = "init"
    /\ upload = NoUpload
    /\ edit = NoEdit
    /\ recomputed = EmptyMap
    /\ completed = {}
    /\ pending = NoPending
    /\ proc = [p \in Procs |-> IdleProc]
    /\ call = NoCall
    /\ portfolio_balances = {}
    /\ statement_uploads = {}
    /\ upload_sessions = {}

\* The batch as save_many ranks it
RankedBatch(rows, import_batch_id, import_timestamp) ==
    AssignRanksWithinBatch(
        [i \in 1..Len(rows) |-> NewTransaction(rows[i], import_batch_id, import_timestamp)],
        import_batch_id, import_timestamp)

\* The rows of a ranked batch whose (base_hash, rank) the store already holds
StoredPositions(store, txs) ==
    {i \in 1..Len(txs) :
        \E j \in 1..Len(store) :
            /\ store[j].base_hash = txs[i].base_hash
            /\ store[j].rank_within_batch = txs[i].rank_within_batch}

\* The rows of a ranked batch whose base_hash the store already holds
KnownPositions(store, txs) ==
    {i \in 1..Len(txs) : \E j \in 1..Len(store) : store[j].base_hash = txs[i].base_hash}

\* confirm_upload of a session holding rows: save_many under a new batch id
\* and timestamp, then update_from_transactions for the affected scopes.  A
\* transient fault at the commit of row failAt makes save_many raise: the
\* handler stops there, with no recompute.
Confirm(rows, failAt) ==
    /\ \E res \in SaveMany(transactions, rows, clock, clock, failAt) :
        LET isRetry == rows = pending.rows
            runs == ~res.raised /\ DOMAIN res.affected_data # {}
            txs == RankedBatch(rows, clock, clock)
        IN
        /\ Len(res.store) <= MaxStore
        /\ transactions' = res.store
        /\ monthly_summary' =
              IF runs THEN UpdateFromTransactions(monthly_summary, res.store, res.affected_data)
              ELSE monthly_summary
        /\ recomputed' = IF runs THEN res.affected_data ELSE EmptyMap
        /\ upload' =
              [rows |-> rows, bid |-> clock, raised |-> res.raised,
               records_added |-> res.records_added, affected_data |-> res.affected_data,
               duplicate_hashes |-> res.duplicate_hashes, saved |-> res.saved,
               stored_before |-> StoredPositions(transactions, txs),
               known_before |-> KnownPositions(transactions, txs),
               reupload |-> rows \in completed, retry |-> isRetry,
               failed_saved |-> IF isRetry THEN pending.saved ELSE {},
               bids |-> (IF isRetry THEN pending.bids ELSE {}) \cup {clock},
               fault |-> res.fault]
        /\ completed' = IF res.raised THEN completed ELSE completed \cup {rows}
        /\ pending' =
              IF res.raised
              THEN [rows |-> rows,
                    saved |-> (IF isRetry THEN pending.saved ELSE {}) \cup res.saved,
                    bids |-> (IF isRetry THEN pending.bids ELSE {}) \cup {clock}]
              ELSE IF isRetry THEN NoPending ELSE pending
    /\ clock' = clock + 1
    /\ lastOp' = "confirm"
    /\ UNCHANGED <<edits, imports, edit, proc, call, elsewhere>>

\* confirm_upload, among edits and historical imports
ConfirmUpload(rows, failAt) ==
    /\ clock <= MaxUploads
    /\ Confirm(rows, failAt)

\* confirm_upload, called again for a session whose confirmation raised
RetryUpload(rows, failAt) ==
    /\ clock <= MaxRetries
    /\ Confirm(rows, failAt)

\* update_transaction: TransactionRepository.update, then
\* update_from_transactions over every category of the affected months
UpdateTransaction(id, updates) ==
    /\ edits < MaxEdits
    /\ LET res == Update(transactions, id, updates)
           ok == res.result = "ok"
           identityKept == ~ok \/ res.store[id].base_hash = transactions[id].base_hash
           affected == AllCategoriesOf(UpdateAffectedMonths(transactions[id], updates))
       IN
        /\ transactions' = res.store
        /\ monthly_summary' =
              IF ok THEN UpdateFromTransactions(monthly_summary, res.store, affected)
              ELSE monthly_summary
        /\ recomputed' = IF ok THEN affected ELSE EmptyMap
        /\ edit' = [id |-> id, updates |-> <<updates>>, result |-> res.result,
                    before |-> IF ok THEN <<transactions[id]>> ELSE <<>>,
                    after |-> IF ok THEN <<res.store[id]>> ELSE <<>>]
        /\ completed' = IF identityKept THEN completed ELSE {}
        /\ pending' = IF identityKept THEN pending ELSE NoPending
    /\ edits' = edits + 1
    /\ lastOp' = "update"
    /\ UNCHANGED <<clock, imports, upload, proc, call, elsewhere>>

\* import_historical_data with its default force = False (no caller passes
\* force): it imports only while monthly_summary has no row, and returns
\* False without any effect otherwise
ImportHistoricalData(sheet) ==
    /\ imports < MaxImports
    /\ monthly_summary = <<>>
    /\ monthly_summary' = ImportSheetFrom(monthly_summary, sheet, 1)
    /\ imports' = imports + 1
    /\ lastOp' = "historical"
    /\ recomputed' = EmptyMap
    /\ UNCHANGED <<transactions, clock, edits, upload, edit, completed, pending, proc, call, elsewhere>>

Next ==
    \/ \E rows \in Batches : \E failAt \in 0..Len(rows) : ConfirmUpload(rows, failAt)
    \/ \E id \in 1..Len(transactions) : \E updates \in UpdateChoices : UpdateTransaction(id, updates)
    \/ \E sheet \in Sheets : ImportHistoricalData(sheet)

\* Uploads, edits and historical imports, one handler at a time
Spec == Init /\ [][Next]_vars

NextRetry == \E rows \in Batches : \E failAt \in 0..Len(rows) : RetryUpload(rows, failAt)

\* Uploads alone, with faults: a batch, its failed confirmation, its retry
SpecRetry == Init /\ [][NextRetry]_vars

\* ------------------------------------- confirm_upload in overlapping processes
\* Two server processes on the same database file: every SQL statement of a
\* handler is one step, and the steps of the two handlers interleave.
RaceBatches == SeqsUpTo(RowPool, MaxRaceBatch) \ {<<>>}

\* sorted(affected_categories)
CategoryOrder == <<"Acorns", "Food", "Pay">>

FirstSorted(cats) ==
    CategoryOrder[CHOOSE k \in 1..Len(CategoryOrder) :
                      /\ CategoryOrder[k] \in cats
                      /\ \A l \in 1..(k - 1) : CategoryOrder[l] \notin cats]

history == <<edits, imports, lastOp, upload, edit, recomputed, completed, pending, call,
             elsewhere>>

\* save_many, after the loop body of a row: the next row, or out of the loop
\* and into update_from_transactions when affected_data is not empty
AfterRow(st) ==
    LET next == [st EXCEPT !.i = @ + 1]
    IN  IF next.i <= Len(next.txs) THEN [next EXCEPT !.pc = "check"]
        ELSE IF DOMAIN next.affected_data = {} THEN [next EXCEPT !.pc = "done"]
        ELSE [next EXCEPT !.pc = "read", !.months = DOMAIN next.affected_data]

\* update_from_transactions, after the save of a month: the next month, or the end
AfterMonth(st) ==
    LET rest == st.months \ {st.month}
    IN  [st EXCEPT !.months = rest, !.pc = IF rest = {} THEN "done" ELSE "read"]

\* confirm_upload up to the loop of save_many: a new batch id and timestamp,
\* the transactions of the session, their ranks
UploadBegin(p, rows) ==
    /\ proc[p].pc \in {"idle", "done", "failed"}
    /\ clock <= MaxRaceUploads
    /\ proc' = [proc EXCEPT ![p] =
                   [IdleProc EXCEPT !.pc = "check", !.i = 1,
                                    !.txs = RankedBatch(rows, clock, clock)]]
    /\ clock' = clock + 1
    /\ UNCHANGED <<transactions, monthly_summary, history>>

\* save_many: is_duplicate(transaction), a SELECT in a session of its own
SaveManyCheck(p) ==
    /\ proc[p].pc = "check"
    /\ \E is_dup \in IsDuplicateOutcomes(transactions, proc[p].txs[proc[p].i]) :
          proc' = [proc EXCEPT ![p] =
                      IF is_dup
                      THEN AfterRow([@ EXCEPT !.duplicate_hashes =
                                        Append(@, proc[p].txs[proc[p].i].base_hash)])
                      ELSE [@ EXCEPT !.pc = "insert"]]
    /\ UNCHANGED <<transactions, monthly_summary, clock, history>>

\* save_many: session.add(transaction_model); session.commit()
SaveManyInsert(p) ==
    /\ proc[p].pc = "insert"
    /\ LET st == [store |-> transactions, records_added |-> proc[p].records_added,
                  affected_data |-> proc[p].affected_data,
                  duplicate_hashes |-> proc[p].duplicate_hashes,
                  saved |-> proc[p].saved, raised |-> FALSE, conflicts |-> {}, fault |-> 0]
           res == SaveManyRow(st, proc[p].txs[proc[p].i], proc[p].i, FALSE, FALSE)
       IN  /\ transactions' = res.store
           /\ proc' = [proc EXCEPT ![p] =
                          AfterRow([@ EXCEPT !.records_added = res.records_added,
                                             !.affected_data = res.affected_data,
                                             !.duplicate_hashes = res.duplicate_hashes,
                                             !.saved = res.saved])]
    /\ UNCHANGED <<monthly_summary, clock, history>>

\* update_from_transactions: current_summary = find_by_month_year(month_year)
RecomputeRead(p) ==
    /\ proc[p].pc = "read"
    /\ LET m == CHOOSE x \in proc[p].months : TRUE
       IN  proc' = [proc EXCEPT ![p] =
                       [@ EXCEPT !.pc = "sum", !.month = m,
                                 !.cats = proc[p].affected_data[m],
                                 !.summary = CurrentSummary(monthly_summary, m)]]
    /\ UNCHANGED <<transactions, monthly_summary, clock, history>>

\* update_from_transactions: the SUM query of the next affected category;
\* after the last one, calculate_totals
RecomputeSum(p) ==
    /\ proc[p].pc = "sum"
    /\ LET c == FirstSorted(proc[p].cats)
           rest == proc[p].cats \ {c}
           summed == [proc[p].summary EXCEPT !.category_totals =
                         ResumCategories(@, transactions, proc[p].month, {c})]
       IN  proc' = [proc EXCEPT ![p] =
                       IF rest = {}
                       THEN [@ EXCEPT !.pc = "save", !.cats = rest,
                                      !.summary = CalculateTotals(summed)]
                       ELSE [@ EXCEPT !.cats = rest, !.summary = summed]]
    /\ UNCHANGED <<transactions, monthly_summary, clock, history>>

\* save: SELECT id FROM monthly_summary WHERE month_year = :month_year
SaveCheck(p) ==
    /\ proc[p].pc = "save"
    /\ LET found == FindByMonthYear(monthly_summary, proc[p].summary.month_year)
       IN  proc' = [proc EXCEPT ![p] =
                       [@ EXCEPT !.pc = "write",
                                 !.existing = IF found = {} THEN 0
                                              ELSE CHOOSE i \in found : \A j \in found : i <= j]]
    /\ UNCHANGED <<transactions, monthly_summary, clock, history>>

\* save: the UPDATE or the INSERT, and the commit.  The INSERT of a
\* month_year that is taken raises IntegrityError, which nothing catches:
\* the handler ends there.
SaveWrite(p) ==
    /\ proc[p].pc = "write"
    /\ IF proc[p].existing # 0
       THEN /\ monthly_summary' =
                  UpdateSummaryRow(monthly_summary, proc[p].existing, proc[p].summary)
            /\ proc' = [proc EXCEPT ![p] = AfterMonth(@)]
       ELSE IF MonthYearTaken(monthly_summary, proc[p].summary.month_year)
       THEN /\ monthly_summary' = monthly_summary
            /\ proc' = [proc EXCEPT ![p] = [@ EXCEPT !.pc = "failed"]]
       ELSE /\ monthly_summary' = InsertSummaryRow(monthly_summary, proc[p].summary)
            /\ proc' = [proc EXCEPT ![p] = AfterMonth(@)]
    /\ UNCHANGED <<transactions, clock, history>>

NextRace ==
    \E p \in Procs :
        \/ \E rows \in RaceBatches : UploadBegin(p, rows)
        \/ SaveManyCheck(p)
        \/ SaveManyInsert(p)
        \/ RecomputeRead(p)
        \/ RecomputeSum(p)
        \/ SaveCheck(p)
        \/ SaveWrite(p)

\* Uploads confirmed by two processes at once
SpecRace == Init /\ [][NextRace]_vars

\* ------------------------------------------ the repository called directly
\* TransactionRepository as its callers can use it: save_many with a batch id
\* and a timestamp of the caller's choice, and is_duplicate on a transaction.
RepoBatches == SeqsUpTo(RowPool, MaxRepoBatch) \ {<<>>}

RepoIds == 1..MaxRepoIds

\* save_many(transactions, import_batch_id, import_timestamp)
SaveManyCall(rows, import_batch_id, import_timestamp) ==
    /\ clock <= MaxRepoCalls
    /\ \E res \in SaveMany(transactions, rows, import_batch_id, import_timestamp, 0) :
          /\ Len(res.store) <= MaxStore
          /\ transactions' = res.store
          /\ call' = [op |-> "save_many", rows |-> rows,
                      import_batch_id |-> import_batch_id,
                      import_timestamp |-> import_timestamp,
                      txs |-> RankedBatch(rows, import_batch_id, import_timestamp),
                      store_before |-> transactions,
                      records_added |-> res.records_added,
                      affected_data |-> res.affected_data,
                      duplicate_hashes |-> res.duplicate_hashes,
                      saved |-> res.saved, conflicts |-> res.conflicts,
                      raised |-> res.raised]
    /\ clock' = clock + 1
    /\ UNCHANGED <<monthly_summary, edits, imports, lastOp, upload, edit, recomputed,
                   completed, pending, proc, elsewhere>>

\* is_duplicate(transaction) on a transaction with the given rank and timestamp
IsDuplicateCall(row, rank, import_timestamp) ==
    LET t == [NewTransaction(row, 0, import_timestamp) EXCEPT !.rank_within_batch = rank]
    IN  /\ \E result \in IsDuplicateOutcomes(transactions, t) :
              call' = [op |-> "is_duplicate", transaction |-> t, result |-> result]
        /\ UNCHANGED <<transactions, monthly_summary, clock, edits, imports, lastOp, upload,
                       edit, recomputed, completed, pending, proc, elsewhere>>

NextRepo ==
    \/ \E rows \in RepoBatches : \E bid \in RepoIds : \E ts \in RepoIds :
          SaveManyCall(rows, bid, ts)
    \/ \E row \in RowPool : \E rank \in 0..MaxRepoBatch : \E ts \in RepoIds :
          IsDuplicateCall(row, rank, ts)

\* save_many and is_duplicate called with batch ids and timestamps of any kind
SpecRepo == Init /\ [][NextRepo]_vars

\* ------------------------------------- confirm_upload on sessions of any rows
\* The Date of a session row that came from an empty cell
NaT == [year |-> 0, month |-> 0, day |-> 0]

\* The rows a session can hold: a row of the pool, a row without a date, a
\* row whose reviewed category is not a configured one, a row of another month
SessionPool ==
    { [date |-> DateJan, description |-> "COFFEE", amount |-> FromFloat(4500), category |-> "Food",  source |-> "chase"],
      [date |-> NaT,     description |-> "TEA",    amount |-> FromFloat(2000), category |-> "Food",  source |-> "chase"],
      [date |-> DateJan, description |-> "GIFT",   amount |-> FromFloat(3000), category |-> "Gifts", source |-> "chase"],
      [date |-> DateFeb, description |-> "BOOK",   amount |-> FromFloat(1000), category |-> "Food",  source |-> "chase"] }

Sessions == SeqsUpTo(SessionPool, MaxSessionBatch) \ {<<>>}

\* pd.to_datetime(tx_data['Date']).date() raises on NaT
RowBuilds(tx_data) == tx_data.date # NaT

RECURSIVE TransactionsToSave(_, _)
\* The row loop of confirm_upload from row i on: a row that raises is passed
\* over (except: continue)
TransactionsToSave(session, i) ==
    IF i > Len(session) THEN <<>>
    ELSE IF RowBuilds(session[i]) THEN <<session[i]>> \o TransactionsToSave(session, i + 1)
    ELSE TransactionsToSave(session, i + 1)

\* processed_transactions, with was_duplicate set from duplicate_hashes
ProcessedTransactions(txs, duplicate_hashes) ==
    [i \in 1..Len(txs) |->
        [date |-> txs[i].date, description |-> txs[i].description,
         amount |-> txs[i].amount, category |-> txs[i].category, source |-> txs[i].source,
         was_duplicate |-> \E k \in 1..Len(duplicate_hashes) :
                               duplicate_hashes[k] = txs[i].base_hash]]

RECURSIVE MonthsInOrder(_, _, _, _)
\* The keys of affected_data in the order save_many inserted them
MonthsInOrder(txs, saved, i, acc) ==
    IF i > Len(txs) THEN acc
    ELSE IF i \in saved /\ \A k \in 1..Len(acc) : acc[k] # txs[i].month
    THEN MonthsInOrder(txs, saved, i + 1, Append(acc, txs[i].month))
    ELSE MonthsInOrder(txs, saved, i + 1, acc)

\* confirm_upload: the row loop, save_many, update_from_transactions, the
\* response.  status is 200 for a response and 500 for an exception.
ConfirmUploadSession(session) ==
    /\ clock <= MaxSessionUploads
    /\ LET rows == TransactionsToSave(session, 1)
           txs == RankedBatch(rows, clock, clock)
       IN  IF rows = <<>>
           THEN /\ call' = [op |-> "confirm_upload", session |-> session, status |-> 200,
                            message |-> "No valid transactions to process",
                            total_transactions |-> 0, new_transactions |-> 0,
                            duplicate_transactions |-> 0,
                            processed_transactions |-> <<>>,
                            saved |-> {}, affected_data |-> EmptyMap,
                            store_before |-> transactions,
                            summaries_before |-> monthly_summary]
                /\ UNCHANGED <<transactions, monthly_summary>>
           ELSE \E res \in SaveMany(transactions, rows, clock, clock, 0) :
                  LET upd == UpdateFromTransactionsInOrder(
                                 monthly_summary, res.store, res.affected_data,
                                 MonthsInOrder(txs, res.saved, 1, <<>>), 1)
                  IN  /\ transactions' = res.store
                      /\ monthly_summary' = upd.summaries
                      /\ call' = [op |-> "confirm_upload", session |-> session,
                                  status |-> IF upd.raised THEN 500 ELSE 200,
                                  message |-> IF upd.raised THEN "error" ELSE "Successfully",
                                  total_transactions |-> IF upd.raised THEN 0 ELSE Len(rows),
                                  new_transactions |-> IF upd.raised THEN 0 ELSE res.records_added,
                                  duplicate_transactions |->
                                      IF upd.raised THEN 0 ELSE Len(res.duplicate_hashes),
                                  processed_transactions |->
                                      IF upd.raised THEN <<>>
                                      ELSE ProcessedTransactions(txs, res.duplicate_hashes),
                                  saved |-> res.saved, affected_data |-> res.affected_data,
                                  store_before |-> transactions,
                                  summaries_before |-> monthly_summary]
    /\ clock' = clock + 1
    /\ UNCHANGED <<edits, imports, lastOp, upload, edit, recomputed, completed, pending, proc, elsewhere>>

NextSession == \E session \in Sessions : ConfirmUploadSession(session)

\* Uploads of sessions that hold rows of any kind
SpecSession == Init /\ [][NextSession]_vars

\* -------------------------------------- files with either Amount column type
\* Decimal(str(x)) of an int x, as standardize_amount builds it when pandas
\* read the Amount column as int64 (no amount of the file has a decimal point)
FromInt(val) == Dec(val, 0)

\* The same purchase of 45 dollars, from a file whose Amount column is int64
\* and from a file whose Amount column is float64
ColumnPool ==
    { [date |-> DateJan, description |-> "LUNCH", amount |-> FromInt(45000),   category |-> "Food", source |-> "wells"],
      [date |-> DateJan, description |-> "LUNCH", amount |-> FromFloat(45000), category |-> "Food", source |-> "wells"] }

ColumnBatches == SeqsUpTo(ColumnPool, MaxColumnBatch) \ {<<>>}

NextColumn ==
    \/ \E rows \in ColumnBatches : ConfirmUpload(rows, 0)
    \/ \E id \in 1..Len(transactions) : \E updates \in UpdateChoices : UpdateTransaction(id, updates)

\* Uploads of files of either Amount column type, and edits
SpecColumn == Init /\ [][NextColumn]_vars

\* ------------------------------------------ create_base_hash on raw rows
\* The date texts of raw rows
DateTexts == {"3/1/2024", "2024-03-01", "3/2/2024"}

\* pd.to_datetime(date_str): month first for a text with slashes, ISO order
\* for a text with dashes
ToDatetime(date_str) ==
    CASE date_str = "3/1/2024"   -> [year |-> 2024, month |-> 3, day |-> 1]
      [] date_str = "2024-03-01" -> [year |-> 2024, month |-> 3, day |-> 1]
      [] date_str = "3/2/2024"   -> [year |-> 2024, month |-> 3, day |-> 2]

\* create_base_hash called with a date text: the text is parsed, then
\* written as %m/%d/%Y; description, amount and source enter the digest as
\* they are passed
CreateBaseHashFromText(date_str, description, amount, source) ==
    CreateBaseHash(ToDatetime(date_str), description, amount, source)

\* The raw rows create_base_hash is called with
RawRows ==
    [date : DateTexts,
     description : {"Coffee Shop", " coffee shop ", "Tea"},
     amount : {FromFloat(4500), FromFloat(9000)},
     source : {"chase", "CHASE"}]

\* create_base_hash(row): call.hashed keeps the digest of every row hashed
CreateBaseHashCall(row) ==
    LET hashed == IF call.op = "create_base_hash" THEN call.hashed ELSE {}
    IN  /\ Cardinality(hashed) < MaxHashed
        /\ call' = [op |-> "create_base_hash",
                    hashed |-> hashed \cup
                        {[row |-> row,
                          base_hash |-> CreateBaseHashFromText(row.date, row.description,
                                                               row.amount, row.source)]}]
        /\ UNCHANGED <<transactions, monthly_summary, clock, edits, imports, lastOp, upload,
                       edit, recomputed, completed, pending, proc, elsewhere>>

NextHash == \E row \in RawRows : CreateBaseHashCall(row)

\* create_base_hash applied to raw rows
SpecHash == Init /\ [][NextHash]_vars

\* ---------------------------------------------- MonthlyDuplicateDetector
\* similarity_threshold and warning_threshold, in thousandths
SimilarityThreshold == 10
WarningThreshold == 50

DateJanLate == [year |-> 2024, month |-> 1, day |-> 20]

\* Rows the portfolio_balances table can hold (amounts in cents)
BalancePool ==
    { [id |-> 1, account_id |-> 1, balance_date |-> DateJan,     balance_amount |-> 0],
      [id |-> 2, account_id |-> 1, balance_date |-> DateJan,     balance_amount |-> 100000],
      [id |-> 3, account_id |-> 1, balance_date |-> DateFeb,     balance_amount |-> 100000],
      [id |-> 4, account_id |-> 2, balance_date |-> DateJanLate, balance_amount |-> 0],
      [id |-> 5, account_id |-> 1, balance_date |-> DateJanLate, balance_amount |-> 0] }

\* idx_portfolio_balances_unique: one row per account and date
UniquePerAccountDate(t) ==
    \A a \in t : \A b \in t :
        (a.account_id = b.account_id /\ a.balance_date = b.balance_date) => a = b

\* The amounts of a new balance, in cents
NewAmounts == {0, 100000, 100500, 105000, 130000}

BalanceTables ==
    {t \in SUBSET BalancePool : Cardinality(t) <= MaxSnapshots /\ UniquePerAccountDate(t)}

\* The query of check_monthly_duplicates: same account, same year and month,
\* without the row exclude_id when one is given (0: None)
ExistingBalances(table, account_id, balance_date, exclude_id) ==
    {b \in table :
        /\ b.account_id = account_id
        /\ b.balance_date.year = balance_date.year
        /\ b.balance_date.month = balance_date.month
        /\ (exclude_id # 0 => b.id # exclude_id)}

\* The orders query.all() can return the rows in
Orders(S) ==
    {o \in [1..Cardinality(S) -> S] : \A i \in DOMAIN o : \A j \in DOMAIN o : o[i] = o[j] => i = j}

\* The similarity of _analyze_conflict, in thousandths: 1.0 or 0.0 for an
\* existing amount of zero; otherwise 1.0 - (amount_diff / existing_amount)
\* subtracts a Decimal from a float, which raises TypeError
Similarity(existing_amount, new_amount) ==
    IF existing_amount = 0
    THEN [raised |-> FALSE, value |-> IF new_amount = 0 THEN 1000 ELSE 0]
    ELSE [raised |-> TRUE, value |-> 0]

DuplicateCheckResult(is_duplicate, conflict_type, recommendation) ==
    [is_duplicate |-> is_duplicate, conflict_type |-> conflict_type,
     recommendation |-> recommendation, raised |-> FALSE]

\* _analyze_conflict
AnalyzeConflict(existing, new_date, new_amount) ==
    LET similarity == Similarity(existing.balance_amount, new_amount)
    IN  IF similarity.raised
        THEN [is_duplicate |-> FALSE, conflict_type |-> "TypeError",
              recommendation |-> "", raised |-> TRUE]
        ELSE IF existing.balance_date = new_date
        THEN IF similarity.value >= 1000 - SimilarityThreshold
             THEN DuplicateCheckResult(TRUE, "exact_duplicate", "block_save")
             ELSE DuplicateCheckResult(TRUE, "same_date_different_amount", "require_confirmation")
        ELSE IF similarity.value >= 1000 - SimilarityThreshold
        THEN DuplicateCheckResult(TRUE, "similar_monthly_balance", "warn_user")
        ELSE IF similarity.value >= 1000 - WarningThreshold
        THEN DuplicateCheckResult(TRUE, "monthly_update", "suggest_update")
        ELSE DuplicateCheckResult(TRUE, "monthly_large_difference", "manual_review")

RECURSIVE CheckEachExisting(_, _, _, _)
\* The loop over existing_balances from its i-th row on, inside the try
CheckEachExisting(existing_balances, i, balance_date, balance_amount) ==
    IF i > Len(existing_balances)
    THEN DuplicateCheckResult(FALSE, "none", "safe_to_save")
    ELSE LET conflict_result == AnalyzeConflict(existing_balances[i], balance_date, balance_amount)
         IN  IF conflict_result.raised
             THEN DuplicateCheckResult(FALSE, "error", "manual_review")
             ELSE IF conflict_result.is_duplicate THEN conflict_result
             ELSE CheckEachExisting(existing_balances, i + 1, balance_date, balance_amount)

\* check_monthly_duplicates on a table: the results it can return
CheckMonthlyDuplicates(table, account_id, balance_date, balance_amount, exclude_id) ==
    LET existing == ExistingBalances(table, account_id, balance_date, exclude_id)
    IN  IF existing = {}
        THEN {DuplicateCheckResult(FALSE, "none", "safe_to_save")}
        ELSE {CheckEachExisting(o, 1, balance_date, balance_amount) : o \in Orders(existing)}

CheckMonthlyDuplicatesCall(table, account_id, balance_date, balance_amount, exclude_id) ==
    /\ \E result \in CheckMonthlyDuplicates(table, account_id, balance_date,
                                              balance_amount, exclude_id) :
          call' = [op |-> "check_monthly_duplicates", table |-> table,
                   account_id |-> account_id, balance_date |-> balance_date,
                   balance_amount |-> balance_amount, exclude_id |-> exclude_id,
                   result |-> result]
    /\ UNCHANGED <<transactions, monthly_summary, clock, edits, imports, lastOp, upload,
                   edit, recomputed, completed, pending, proc, elsewhere>>

NextBalance ==
    \E table \in BalanceTables : \E account_id \in {1, 2} :
    \E balance_date \in {DateJan, DateJanLate} : \E balance_amount \in NewAmounts :
    \E exclude_id \in {0, 1} :
        CheckMonthlyDuplicatesCall(table, account_id, balance_date, balance_amount, exclude_id)

\* check_monthly_duplicates on tables of balance snapshots
SpecBalance == Init /\ [][NextBalance]_vars

\* ------------------------------------------ the portfolio router's writes

\* The accounts of investment_accounts; an id outside it is not found
InvestmentAccounts == {1, 2}
AccountIds == {1, 2, 3}

\* The amounts of a written balance, in cents
PortfolioAmounts == {0, 100000, 105000}

PortfolioDates == {DateJan, DateJanLate}

NextId(rows) == Cardinality(rows) + 1

\* check_balance_exists: the row of the account and date, as a set
CheckBalanceExists(table, account_id, balance_date) ==
    {b \in table : b.account_id = account_id /\ b.balance_date = balance_date}

\* save_balance: the row of the same account and date takes the new amount;
\* without one a row is inserted
SaveBalance(table, account_id, balance_date, balance_amount) ==
    LET existing == CheckBalanceExists(table, account_id, balance_date)
    IN  IF existing # {}
        THEN {IF b \in existing THEN [b EXCEPT !.balance_amount = balance_amount] ELSE b :
                  b \in table}
        ELSE table \cup {[id |-> NextId(table), account_id |-> account_id,
                          balance_date |-> balance_date, balance_amount |-> balance_amount]}

\* get_statement_upload, as a set
GetStatementUpload(statement_id) == {st \in statement_uploads : st.id = statement_id}

\* mark_statement_processed and mark_statement_reviewed(reviewed_by_user=True)
MarkStatementSaved(statement_id) ==
    {IF st.id = statement_id THEN [st EXCEPT !.processing_status = "saved"] ELSE st :
         st \in statement_uploads}

NoResult == [is_duplicate |-> FALSE, conflict_type |-> "", recommendation |-> "",
             raised |-> FALSE]

\* What a portfolio handler was given and did: classified tells whether it
\* ran check_monthly_duplicates, wrote whether it reached save_balance
PortfolioCall(op, statement_id, account_id, balance_date, balance_amount, flag, classified, result, status, requires_confirmation, wrote) ==
    [op |-> op, statement_id |-> statement_id, account_id |-> account_id,
     balance_date |-> balance_date, balance_amount |-> balance_amount, flag |-> flag,
     classified |-> classified, result |-> result, status |-> status,
     requires_confirmation |-> requires_confirmation, wrote |-> wrote,
     balances_before |-> portfolio_balances, statements_before |-> statement_uploads]

PortfolioFrame ==
    /\ clock <= MaxPortfolioCalls
    /\ clock' = clock + 1
    /\ UNCHANGED <<transactions, monthly_summary, edits, imports, lastOp, upload, edit,
                   recomputed, completed, pending, proc, upload_sessions>>

\* add_manual_balance(balance_request, force_override)
AddManualBalance(account_id, balance_date, balance_amount, force_override) ==
    /\ PortfolioFrame
    /\ IF account_id \notin InvestmentAccounts
       THEN /\ call' = PortfolioCall("add_manual_balance", 0, account_id, balance_date,
                                     balance_amount, force_override, FALSE, NoResult, 500,
                                     FALSE, FALSE)
            /\ UNCHANGED <<portfolio_balances, statement_uploads>>
       ELSE IF CheckBalanceExists(portfolio_balances, account_id, balance_date) # {}
               /\ ~force_override
       THEN /\ call' = PortfolioCall("add_manual_balance", 0, account_id, balance_date,
                                     balance_amount, force_override, FALSE, NoResult, 200,
                                     FALSE, FALSE)
            /\ UNCHANGED <<portfolio_balances, statement_uploads>>
       ELSE /\ portfolio_balances' = SaveBalance(portfolio_balances, account_id,
                                                 balance_date, balance_amount)
            /\ call' = PortfolioCall("add_manual_balance", 0, account_id, balance_date,
                                     balance_amount, force_override, FALSE, NoResult, 200,
                                     FALSE, TRUE)
            /\ UNCHANGED statement_uploads

\* confirm_statement_extraction(statement_data)
ConfirmStatementExtraction(account_id, balance_date, balance_amount) ==
    /\ PortfolioFrame
    /\ IF account_id \notin InvestmentAccounts
       THEN /\ call' = PortfolioCall("confirm_statement_extraction", 0, account_id,
                                     balance_date, balance_amount, FALSE, FALSE, NoResult,
                                     500, FALSE, FALSE)
            /\ UNCHANGED <<portfolio_balances, statement_uploads>>
       ELSE /\ portfolio_balances' = SaveBalance(portfolio_balances, account_id,
                                                 balance_date, balance_amount)
            /\ call' = PortfolioCall("confirm_statement_extraction", 0, account_id,
                                     balance_date, balance_amount, FALSE, FALSE, NoResult,
                                     200, FALSE, TRUE)
            /\ UNCHANGED statement_uploads

\* upload_statement_with_page_detection, from the parsed statement on: the
\* matched account (0: none), the period end and the ending balance are
\* what the parser found; a balance of 0 is stored as None
UploadStatement(account_id, statement_date, ending_balance) ==
    /\ PortfolioFrame
    /\ \E result \in (IF account_id # 0 /\ ending_balance # 0
                      THEN CheckMonthlyDuplicates(portfolio_balances, account_id,
                                                  statement_date, ending_balance, 0)
                      ELSE {NoResult}) :
          call' = PortfolioCall("upload_statement", NextId(statement_uploads), account_id,
                                statement_date, ending_balance, FALSE,
                                account_id # 0 /\ ending_balance # 0, result, 200, FALSE,
                                FALSE)
    /\ statement_uploads' = statement_uploads \cup
          {[id |-> NextId(statement_uploads), account_id |-> account_id,
            statement_date |-> statement_date, extracted_balance |-> ending_balance,
            processing_status |-> "processed"]}
    /\ UNCHANGED portfolio_balances

\* quick_save_statement(statement_id, request)
QuickSaveStatement(statement_id, confirm_duplicates) ==
    /\ PortfolioFrame
    /\ IF GetStatementUpload(statement_id) = {}
       THEN /\ call' = PortfolioCall("quick_save_statement", statement_id, 0, NaT, 0,
                                     confirm_duplicates, FALSE, NoResult, 404, FALSE, FALSE)
            /\ UNCHANGED <<portfolio_balances, statement_uploads>>
       ELSE LET statement == CHOOSE st \in GetStatementUpload(statement_id) : TRUE
                answer(classified, result, status, requires_confirmation, wrote) ==
                    PortfolioCall("quick_save_statement", statement_id,
                                  statement.account_id, statement.statement_date,
                                  statement.extracted_balance, confirm_duplicates,
                                  classified, result, status, requires_confirmation, wrote)
            IN  IF statement.account_id = 0 \/ statement.extracted_balance = 0
                THEN /\ call' = answer(FALSE, NoResult, 400, FALSE, FALSE)
                     /\ UNCHANGED <<portfolio_balances, statement_uploads>>
                ELSE \E duplicate_result \in
                            CheckMonthlyDuplicates(portfolio_balances, statement.account_id,
                                                   statement.statement_date,
                                                   statement.extracted_balance, 0) :
                        IF duplicate_result.is_duplicate /\ ~confirm_duplicates
                        THEN /\ call' = IF duplicate_result.recommendation = "block_save"
                                        THEN answer(TRUE, duplicate_result, 409, FALSE, FALSE)
                                        ELSE answer(TRUE, duplicate_result, 200, TRUE, FALSE)
                             /\ UNCHANGED <<portfolio_balances, statement_uploads>>
                        ELSE /\ portfolio_balances' =
                                    SaveBalance(portfolio_balances, statement.account_id,
                                                statement.statement_date,
                                                statement.extracted_balance)
                             /\ statement_uploads' = MarkStatementSaved(statement_id)
                             /\ call' = answer(TRUE, duplicate_result, 200, FALSE, TRUE)

\* save_reviewed_statement(statement_id, review_data)
SaveReviewedStatement(statement_id, account_id, balance_date, balance_amount) ==
    /\ PortfolioFrame
    /\ IF GetStatementUpload(statement_id) = {} \/ account_id \notin InvestmentAccounts
       THEN /\ call' = PortfolioCall("save_reviewed_statement", statement_id, account_id,
                                     balance_date, balance_amount, FALSE, FALSE, NoResult,
                                     404, FALSE, FALSE)
            /\ UNCHANGED <<portfolio_balances, statement_uploads>>
       ELSE \E duplicate_result \in
                   CheckMonthlyDuplicates(portfolio_balances, account_id, balance_date,
                                          balance_amount, 0) :
               /\ portfolio_balances' = SaveBalance(portfolio_balances, account_id,
                                                    balance_date, balance_amount)
               /\ statement_uploads' = MarkStatementSaved(statement_id)
               /\ call' = PortfolioCall("save_reviewed_statement", statement_id, account_id,
                                        balance_date, balance_amount, FALSE, TRUE,
                                        duplicate_result, 200, FALSE, TRUE)

NextPortfolio ==
    \/ \E account_id \in AccountIds : \E balance_date \in PortfolioDates :
       \E balance_amount \in PortfolioAmounts : \E force_override \in BOOLEAN :
           AddManualBalance(account_id, balance_date, balance_amount, force_override)
    \/ \E account_id \in AccountIds : \E balance_date \in PortfolioDates :
       \E balance_amount \in PortfolioAmounts :
           ConfirmStatementExtraction(account_id, balance_date, balance_amount)
    \/ \E account_id \in {0} \cup InvestmentAccounts : \E statement_date \in PortfolioDates :
       \E ending_balance \in PortfolioAmounts :
           UploadStatement(account_id, statement_date, ending_balance)
    \/ \E statement_id \in 1..MaxPortfolioCalls : \E confirm_duplicates \in BOOLEAN :
           QuickSaveStatement(statement_id, confirm_duplicates)
    \/ \E statement_id \in 1..MaxPortfolioCalls : \E account_id \in AccountIds :
       \E balance_date \in PortfolioDates : \E balance_amount \in PortfolioAmounts :
           SaveReviewedStatement(statement_id, account_id, balance_date, balance_amount)

\* The write paths of the portfolio router on one database
SpecPortfolio == Init /\ [][NextPortfolio]_vars

\* ------------------------------------------- preview_upload, then confirm_upload

\* timedelta(hours=1), in the half hours the clock of this section counts
SessionLifetime == 2

Files == SeqsUpTo(RowPool, MaxFileRows) \ {<<>>}

\* The files of one preview_upload request, in the order they are processed
FileLists == SeqsUpTo(Files, MaxFiles) \ {<<>>}

\* A row of a session: the record of the file with the is_duplicate it was given
SessionRow(row, is_duplicate) ==
    [date |-> row.date, description |-> row.description, amount |-> row.amount,
     category |-> row.category, source |-> row.source, is_duplicate |-> is_duplicate]

\* The row confirm_upload builds a Transaction from
RowOf(tx_data) ==
    [date |-> tx_data.date, description |-> tx_data.description, amount |-> tx_data.amount,
     category |-> tx_data.category, source |-> tx_data.source]

\* preview_upload, one file: the rows are ranked within the file and each is
\* asked is_duplicate against the store
PreviewFile(store, file, session_id, preview_import_timestamp) ==
    LET preview_transactions == RankedBatch(file, session_id, preview_import_timestamp)
    IN  {[i \in 1..Len(file) |-> SessionRow(file[i], flags[i])] :
            flags \in {f \in [1..Len(file) -> BOOLEAN] :
                         \A i \in 1..Len(file) :
                             f[i] \in IsDuplicateOutcomes(store, preview_transactions[i])}}

RECURSIVE PreviewFilesFrom(_, _, _, _, _)
\* preview_upload, the loop over files from the k-th on: all_transactions.extend
PreviewFilesFrom(store, files, k, session_id, preview_import_timestamp) ==
    IF k > Len(files) THEN {<<>>}
    ELSE {head \o tail :
            head \in PreviewFile(store, files[k], session_id, preview_import_timestamp),
            tail \in PreviewFilesFrom(store, files, k + 1, session_id,
                                      preview_import_timestamp)}

\* _cleanup_old_sessions at current_time
CleanupOldSessions(sessions, current_time) ==
    {sn \in sessions : ~(current_time - sn.timestamp > SessionLifetime)}

\* upload_sessions.get(session_id), as a set
GetSession(session_id) == {sn \in upload_sessions : sn.session_id = session_id}

PreviewFrame ==
    /\ clock <= MaxTime
    /\ clock' = clock + 1
    /\ UNCHANGED <<edits, imports, lastOp, upload, edit, recomputed, pending, proc,
                   portfolio_balances, statement_uploads>>

\* preview_upload(files): the session id is the uuid4 of the request, here
\* the time of the request.  seen is the size of the store the flags were
\* computed against.
PreviewUpload(files) ==
    /\ PreviewFrame
    /\ \E all_transactions \in PreviewFilesFrom(transactions, files, 1, clock, clock) :
          /\ upload_sessions' =
                CleanupOldSessions(
                    upload_sessions \cup
                        {[session_id |-> clock, transactions |-> all_transactions,
                          timestamp |-> clock, seen |-> Len(transactions)]},
                    clock)
          /\ call' = [op |-> "preview_upload", session_id |-> clock,
                      total_transactions |-> Len(all_transactions)]
    /\ UNCHANGED <<transactions, monthly_summary, completed>>

\* confirm_upload(confirmation) without category updates.  completed holds
\* the session ids confirmed to completion.
ConfirmUploadOf(session_id) ==
    /\ PreviewFrame
    /\ IF GetSession(session_id) = {}
       THEN /\ call' = [op |-> "confirm_upload", session_id |-> session_id, now |-> clock,
                        status |-> 404, error_code |-> "SESSION_NOT_FOUND",
                        store_before |-> transactions, completed_before |-> completed]
            /\ UNCHANGED <<transactions, monthly_summary, upload_sessions, completed>>
       ELSE LET session_data == CHOOSE sn \in GetSession(session_id) : TRUE
                rows == [i \in 1..Len(session_data.transactions) |->
                            RowOf(session_data.transactions[i])]
                txs == RankedBatch(rows, clock, clock)
            IN  \E res \in SaveMany(transactions, rows, clock, clock, 0) :
                  LET upd == UpdateFromTransactionsInOrder(
                                 monthly_summary, res.store, res.affected_data,
                                 MonthsInOrder(txs, res.saved, 1, <<>>), 1)
                  IN  /\ transactions' = res.store
                      /\ monthly_summary' = upd.summaries
                      /\ upload_sessions' =
                            IF upd.raised THEN upload_sessions
                            ELSE upload_sessions \ {session_data}
                      /\ completed' =
                            IF upd.raised THEN completed ELSE completed \cup {session_id}
                      /\ call' = [op |-> "confirm_upload", session_id |-> session_id,
                                  now |-> clock,
                                  status |-> IF upd.raised THEN 500 ELSE 200,
                                  error_code |-> "",
                                  session |-> session_data,
                                  saved |-> res.saved,
                                  new_transactions |-> res.records_added,
                                  duplicate_transactions |-> Len(res.duplicate_hashes),
                                  store_before |-> transactions,
                                  completed_before |-> completed]

\* Time passes without a request
Wait ==
    /\ PreviewFrame
    /\ UNCHANGED <<transactions, monthly_summary, completed, call, upload_sessions>>

NextPreview ==
    \/ \E files \in FileLists : PreviewUpload(files)
    \/ \E session_id \in 1..MaxTime : ConfirmUploadOf(session_id)
    \/ Wait

\* Previews and confirmations of upload sessions, with time passing
SpecPreview == Init /\ [][NextPreview]_vars

\* ------------------------------------------------------------------ claims
Positions(rows) == 1..Len(rows)

\* The base hash of each row of a batch, by the fields it is computed from
RowHash(row) == <<"base", StdDate(row.date), row.description, row.amount, row.source>>

\* The stored total of a category in the summary rows of a month (0 when the
\* month has no row or the row has no value for the category)
StoredTotals(month, category) ==
    {monthly_summary[i].category_totals[category] :
        i \in {j \in 1..Len(monthly_summary) :
                /\ monthly_summary[j].month_year = <<MonthNames[month[2]], month[1]>>
                /\ category \in DOMAIN monthly_summary[j].category_totals}}

\* The sum of the amounts of the persisted transactions of a month and category
StoreSum(month, category) ==
    SumSeq([i \in 1..Len(transactions) |->
               IF transactions[i].month = month /\ transactions[i].category = category
               THEN transactions[i].amount ELSE 0], 1)

\* That sum as update_from_transactions stores it: the absolute value for Pay
\* and Payment, rounded to two decimals
Resummed(month, category) ==
    Round2(IF category \in {"Pay", "Payment"} THEN Abs(StoreSum(month, category))
           ELSE StoreSum(month, category))

HasRows(month, category) ==
    \E i \in 1..Len(transactions) :
        transactions[i].month = month /\ transactions[i].category = category

\* C1: a batch that was ingested to completion and is ingested again, same
\* rows in the same order, under a new batch id and a new import timestamp:
\* the second ingestion accepts no row, returns an empty affected-scope map,
\* reports every row as a duplicate and leaves the transactions table as it was.
C1_IdempotentReupload ==
    [][ (clock' # clock /\ upload'.reupload) =>
            /\ ~upload'.raised
            /\ upload'.records_added = 0
            /\ DOMAIN upload'.affected_data = {}
            /\ upload'.duplicate_hashes =
                   [i \in Positions(upload'.rows) |-> RowHash(upload'.rows[i])]
            /\ transactions' = transactions ]_vars

C1_Witness ==
    /\ lastOp = "confirm"
    /\ upload.reupload
    /\ Len(upload.rows) >= 2
    /\ upload.records_added = 0
    /\ Len(transactions) >= 2

IsTrio(rows) == Len(rows) = 3 /\ rows[1] = rows[2] /\ rows[2] = rows[3]

\* The ranks of the records of a batch id that carry a base hash
RanksStored(hash, bid) ==
    {transactions[i].rank_within_batch :
        i \in {j \in 1..Len(transactions) :
                transactions[j].base_hash = hash /\ transactions[j].import_batch_id = bid}}

CountStored(hash, bid) ==
    Cardinality({j \in 1..Len(transactions) :
                    transactions[j].base_hash = hash /\ transactions[j].import_batch_id = bid})

\* C2: a batch holding the same (date, description, amount, source) three
\* times, ingested into a store with no record of that identity hash, persists
\* three records with ranks 1, 2 and 3; the same three rows ingested again in a
\* new batch are all three rejected as duplicates.
C2_RankDisambiguation ==
    (lastOp = "confirm" /\ IsTrio(upload.rows)) =>
        /\ (upload.known_before = {} /\ ~upload.raised) =>
              /\ upload.records_added = 3
              /\ CountStored(RowHash(upload.rows[1]), upload.bid) = 3
              /\ RanksStored(RowHash(upload.rows[1]), upload.bid) = {1, 2, 3}
        /\ upload.reupload =>
              /\ upload.records_added = 0
              /\ Len(upload.duplicate_hashes) = 3
              /\ CountStored(RowHash(upload.rows[1]), upload.bid) = 0

C2_Witness ==
    /\ lastOp = "confirm"
    /\ IsTrio(upload.rows)
    /\ upload.reupload
    /\ Len(upload.duplicate_hashes) = 3
    /\ \E b \in 1..upload.bid - 1 : RanksStored(RowHash(upload.rows[1]), b) = {1, 2, 3}

\* The retry, run to completion, of a batch whose ingestion raised after it
\* had committed some rows
RetryCompleted ==
    lastOp = "confirm" /\ upload.retry /\ ~upload.raised /\ upload.failed_saved # {}

\* C3, as claimed: the retry of a batch whose ingestion stopped at a transient
\* fault skips as duplicates exactly the rows the failed run committed and
\* accepts every row it did not commit.
C3_Original ==
    RetryCompleted =>
        /\ Positions(upload.rows) \ upload.saved = upload.failed_saved
        /\ upload.saved = Positions(upload.rows) \ upload.failed_saved

\* C3, amended: the retry skips as duplicates exactly the rows whose
\* (identity hash, rank) is persisted when it starts, which are the rows the
\* failed run committed and the rows an earlier import had stored, and accepts
\* every other row; afterwards every row of the batch has a record, and the
\* retry has added one record for each row it accepted and none for the others.
C3_ResumablePartialFailure ==
    RetryCompleted =>
        LET txs == RankedBatch(upload.rows, upload.bid, upload.bid)
        IN  /\ upload.failed_saved \subseteq upload.stored_before
            /\ upload.saved = Positions(upload.rows) \ upload.stored_before
            /\ Len(upload.duplicate_hashes) = Cardinality(upload.stored_before)
            /\ \A i \in Positions(upload.rows) :
                  /\ \E j \in 1..Len(transactions) :
                        /\ transactions[j].base_hash = txs[i].base_hash
                        /\ transactions[j].rank_within_batch = txs[i].rank_within_batch
                  /\ Cardinality({j \in 1..Len(transactions) :
                                    /\ transactions[j].base_hash = txs[i].base_hash
                                    /\ transactions[j].rank_within_batch = txs[i].rank_within_batch
                                    /\ transactions[j].import_batch_id = upload.bid})
                        = IF i \in upload.stored_before THEN 0 ELSE 1

C3_Witness ==
    /\ RetryCompleted
    /\ upload.saved # {}
    /\ upload.stored_before # upload.failed_saved

\* C4: after a batch that aborted midway was retried to completion and the
\* recompute for the retry's affected scopes has run, every (month, category)
\* holding a persisted row of that batch has its category total equal to the
\* re-summed store (rounded, and the absolute value for Pay and Payment).
C4_AggregatesAfterRetry ==
    RetryCompleted =>
        \A j \in 1..Len(transactions) :
            transactions[j].import_batch_id \in upload.bids =>
                StoredTotals(transactions[j].month, transactions[j].category) =
                    {Resummed(transactions[j].month, transactions[j].category)}

C7_Original ==
    \A m \in DOMAIN recomputed : \A c \in recomputed[m] :
        HasRows(m, c) => StoredTotals(m, c) = {StoreSum(m, c)}

\* C7, amended: that total equals the sum of the amounts rounded to two
\* decimals, and for the categories Pay and Payment the absolute value of the
\* sum, whatever value the aggregate held before.
C7_FullResum ==
    \A m \in DOMAIN recomputed : \A c \in recomputed[m] :
        HasRows(m, c) =>
            StoredTotals(m, c) =
                {Round2(IF c \in {"Pay", "Payment"} THEN Abs(StoreSum(m, c)) ELSE StoreSum(m, c))}

C7_Witness ==
    /\ lastOp = "update"
    /\ \E m \in DOMAIN recomputed : \E c \in recomputed[m] :
          /\ HasRows(m, c)
          /\ c = "Pay"
          /\ StoreSum(m, c) < 0
    /\ \E m \in DOMAIN recomputed : \E c \in recomputed[m] :
          /\ HasRows(m, c)
          /\ c # "Pay"
          /\ Cardinality({j \in 1..Len(transactions) :
                            transactions[j].month = m /\ transactions[j].category = c}) >= 2

StoredTotalOrZero(month, category) ==
    IF StoredTotals(month, category) = {} THEN {0} ELSE StoredTotals(month, category)

\* C8: when update_transaction changed a transaction's category or month,
\* then after its recompute the old month's aggregate no longer counts the
\* moved amount in the old category (zero when no transaction remains there)
\* and the new month's aggregate counts it in the new category.
C8_EditsReflected ==
    (lastOp = "update" /\ edit.result = "ok") =>
        LET old == edit.before[1]
            new == edit.after[1]
        IN  (old.category # new.category \/ old.month # new.month) =>
                /\ StoredTotalOrZero(old.month, old.category) = {Resummed(old.month, old.category)}
                /\ StoredTotalOrZero(new.month, new.category) = {Resummed(new.month, new.category)}

Finished(p) == proc[p].pc \in {"done", "failed"}

\* The (identity hash, rank) pairs of the batch a process ingests
LogicalKeys(p) ==
    {<<proc[p].txs[i].base_hash, proc[p].txs[i].rank_within_batch>> :
        i \in 1..Len(proc[p].txs)}

StoredWithKey(key) ==
    {j \in 1..Len(transactions) :
        transactions[j].base_hash = key[1] /\ transactions[j].rank_within_batch = key[2]}

\* C5: when two batches with different batch ids and import timestamps are
\* ingested concurrently, their duplicate checks and inserts interleaving, and
\* both hold a row with the same (identity hash, rank), at most one record
\* with that (identity hash, rank) is persisted, and the batch that lost
\* reports the row as a duplicate.
C5_LogicalKeyUnique ==
    \A p, q \in Procs :
        (p # q /\ Finished(p) /\ Finished(q)) =>
            \A key \in LogicalKeys(p) \cap LogicalKeys(q) :
                /\ Cardinality(StoredWithKey(key)) <= 1
                /\ \E r \in {p, q} :
                      \E k \in 1..Len(proc[r].duplicate_hashes) :
                          proc[r].duplicate_hashes[k] = key[1]

\* C9: after any sequence of recomputes, two interleaved recomputes of a
\* month that has no aggregate yet included, monthly_summary holds at most one
\* row per month key, and a recompute of a month that has a row updates that
\* row in place: no row is added for it, and no row changes its id or its key.
C9_OneAggregatePerMonth ==
    [][ /\ \A i, j \in 1..Len(monthly_summary') :
              monthly_summary'[i].month_year = monthly_summary'[j].month_year => i = j
        /\ Len(monthly_summary') >= Len(monthly_summary)
        /\ \A i \in 1..Len(monthly_summary) :
              /\ monthly_summary'[i].id = monthly_summary[i].id
              /\ monthly_summary'[i].month_year = monthly_summary[i].month_year ]_vars

\* Two recomputes of the same month found no aggregate; one inserted it, and
\* the insert of the other was refused
C9_Witness ==
    /\ Len(monthly_summary) = 1
    /\ \E p, q \in Procs :
          /\ proc[p].pc = "failed"
          /\ proc[p].existing = 0
          /\ proc[q].pc = "done"
          /\ proc[q].existing = 0
          /\ proc[q].summary.month_year = proc[p].summary.month_year

\* C10: when two recomputes that touch the same month but different
\* categories run concurrently, then after both have finished the aggregate
\* of the month holds the re-summed total of every category touched by either.
C10_NoLostAggregateUpdate ==
    \A p, q \in Procs :
        (p # q /\ Finished(p) /\ Finished(q)) =>
            \A m \in DOMAIN proc[p].affected_data \cap DOMAIN proc[q].affected_data :
                proc[p].affected_data[m] \cap proc[q].affected_data[m] = {} =>
                    \A c \in proc[p].affected_data[m] \cup proc[q].affected_data[m] :
                        StoredTotals(m, c) = {Resummed(m, c)}

\* The persisted records with the (identity hash, rank) of a transaction
MatchesOf(t) ==
    {j \in 1..Len(transactions) :
        /\ transactions[j].base_hash = t.base_hash
        /\ transactions[j].rank_within_batch = t.rank_within_batch}

\* C11: is_duplicate(row) is false when no persisted record has the row's
\* (identity hash, rank), true when a persisted record with that (identity
\* hash, rank) has another import_timestamp than the row, and false when the
\* persisted record with that (identity hash, rank) has the row's
\* import_timestamp.
C11_DuplicateRule ==
    call.op = "is_duplicate" =>
        LET t == call.transaction
            stamps == {transactions[j].import_timestamp : j \in MatchesOf(t)}
        IN  /\ stamps = {} => ~call.result
            /\ (\E ts \in stamps : ts # t.import_timestamp) => call.result
            /\ stamps = {t.import_timestamp} => ~call.result

C11_Witness ==
    /\ call.op = "is_duplicate"
    /\ ~call.result
    /\ MatchesOf(call.transaction) # {}
    /\ \E row \in RowPool :
          /\ RowHash(row) # call.transaction.base_hash
          /\ \E j \in 1..Len(transactions) : transactions[j].base_hash = RowHash(row)

\* C12: assign_ranks_within_batch gives the row at position i the number of
\* rows at positions up to i with its identity hash as rank; so the ranks of
\* each identity hash are 1..n in file order, no two rows of the batch share
\* (identity hash, rank), and all rows carry the batch id and the
\* import_timestamp of the call.
C12_RankAssignment ==
    lastOp = "confirm" =>
        LET rows == upload.rows
            txs == RankedBatch(rows, upload.bid, upload.bid)
            same(i) == {k \in 1..Len(rows) : RowHash(rows[k]) = RowHash(rows[i])}
        IN  /\ Len(txs) = Len(rows)
            /\ \A i \in 1..Len(rows) :
                  /\ txs[i].base_hash = RowHash(rows[i])
                  /\ txs[i].rank_within_batch = Cardinality({k \in same(i) : k <= i})
                  /\ {txs[k].rank_within_batch : k \in same(i)} = 1..Cardinality(same(i))
                  /\ txs[i].import_batch_id = upload.bid
                  /\ txs[i].import_timestamp = upload.bid
                  /\ \A j \in 1..Len(rows) :
                        (txs[j].base_hash = txs[i].base_hash
                            /\ txs[j].rank_within_batch = txs[i].rank_within_batch) => j = i
                  /\ i \in upload.saved =>
                        \E j \in 1..Len(transactions) :
                            /\ transactions[j].import_batch_id = upload.bid
                            /\ transactions[j].base_hash = RowHash(rows[i])
                            /\ transactions[j].rank_within_batch =
                                   Cardinality({k \in same(i) : k <= i})

\* A batch with another row between two rows of one identity hash, ingested
C12_Witness ==
    /\ lastOp = "confirm"
    /\ Len(upload.rows) = 3
    /\ RowHash(upload.rows[1]) = RowHash(upload.rows[3])
    /\ RowHash(upload.rows[1]) # RowHash(upload.rows[2])
    /\ upload.saved = {1, 2, 3}

\* C13: when persisting one row of a batch fails, the rows after it are still
\* classified and, if not duplicates, persisted, and the call returns a
\* partial-success result instead of raising.
C13_BestEffortBatch ==
    (lastOp = "confirm" /\ upload.fault # 0) =>
        /\ ~upload.raised
        /\ \A i \in Positions(upload.rows) :
              i > upload.fault =>
                  \/ i \in upload.saved
                  \/ \E k \in 1..Len(upload.duplicate_hashes) :
                        upload.duplicate_hashes[k] = RowHash(upload.rows[i])

\* The (month, category) scopes of a set of rows of a batch
ScopesOf(rows, S) == {<<MonthStr(rows[i].date), rows[i].category>> : i \in S}

\* The (month, category) pairs of an affected-scope map
ScopesIn(affected_data) ==
    UNION {{<<m, c>> : c \in affected_data[m]} : m \in DOMAIN affected_data}

\* C14: when the insert of a row that is_duplicate classified as new hits a
\* uniqueness violation, save_many raises nothing, adds the row's identity
\* hash to the duplicate list, does not count the row as accepted, does not
\* add its (month, category) to the affected scopes, and goes on with the
\* next row.
C14_ConflictIsDuplicate ==
    (call.op = "save_many" /\ call.conflicts # {}) =>
        /\ ~call.raised
        /\ call.conflicts \cap call.saved = {}
        /\ \A i \in call.conflicts :
              \E k \in 1..Len(call.duplicate_hashes) :
                  call.duplicate_hashes[k] = RowHash(call.rows[i])
        /\ call.records_added = Cardinality(call.saved)
        /\ Len(transactions) = Len(call.store_before) + Cardinality(call.saved)
        /\ ScopesIn(call.affected_data) \subseteq ScopesOf(call.rows, call.saved)
        /\ Len(call.duplicate_hashes) + call.records_added = Len(call.rows)
        /\ \A i \in Positions(call.rows) \ call.saved :
              \E k \in 1..Len(call.duplicate_hashes) :
                  call.duplicate_hashes[k] = RowHash(call.rows[i])

\* A call whose first row hit the uniqueness violation and whose second row
\* was then inserted
C14_Witness ==
    /\ call.op = "save_many"
    /\ 1 \in call.conflicts
    /\ 2 \in call.saved

\* The records a save_many call appended to the table
PersistedBy(c) == {j \in 1..Len(transactions) : j > Len(c.store_before)}

\* C17: the affected-scope map save_many returns contains (month, category)
\* if and only if the call persisted at least one row with that month and
\* category; rows rejected as duplicates or by a uniqueness violation
\* contribute nothing.
C17_AffectedScopesExact ==
    call.op = "save_many" =>
        /\ \A j \in 1..Len(call.store_before) : transactions[j] = call.store_before[j]
        /\ \A m \in DOMAIN call.affected_data : call.affected_data[m] # {}
        /\ ScopesIn(call.affected_data) =
               {<<transactions[j].month, transactions[j].category>> : j \in PersistedBy(call)}
        /\ ScopesIn(call.affected_data) = ScopesOf(call.rows, call.saved)

\* A call that persisted one row and rejected another of a different
\* category
C17_Witness ==
    /\ call.op = "save_many"
    /\ Len(call.rows) = 2
    /\ call.saved = {2}
    /\ call.rows[1].category # call.rows[2].category
    /\ ScopesIn(call.affected_data) = ScopesOf(call.rows, {2})

\* A date that can be parsed
IsDate(d) == d.month \in 1..12 /\ d.day \in 1..31

\* C15: a row of an upload whose date or amount cannot be parsed is rejected
\* alone: every other row of the batch is still ingested, and the rejected
\* row is reported in the per-row result returned to the caller.
C15_MalformedRecord ==
    (call.op = "confirm_upload" /\ call.status = 200) =>
        \A i \in Positions(call.session) :
            ~IsDate(call.session[i].date) =>
                /\ \A j \in Positions(call.session) :
                      IsDate(call.session[j].date) =>
                          \E n \in 1..Len(transactions) :
                              transactions[n].base_hash = RowHash(call.session[j])
                /\ \E k \in 1..Len(call.processed_transactions) :
                      call.processed_transactions[k].description =
                          call.session[i].description

\* The totals a table of summaries holds for a month and category
TotalsIn(summaries, month, category) ==
    {summaries[i].category_totals[category] :
        i \in {j \in 1..Len(summaries) :
                /\ summaries[j].month_year = <<MonthNames[month[2]], month[1]>>
                /\ category \in DOMAIN summaries[j].category_totals}}

\* C16: when an affected category has no category definition, the recompute
\* skips it and leaves the aggregate's previous value for it unchanged, still
\* updates and saves the other affected categories and months, and does not
\* raise.
C16_UndefinedCategorySkipped ==
    (/\ call.op = "confirm_upload"
     /\ \E m \in DOMAIN call.affected_data : call.affected_data[m] \ Categories # {}) =>
        /\ call.status = 200
        /\ \A m \in DOMAIN call.affected_data : \A c \in call.affected_data[m] :
              IF c \in Categories
              THEN TotalsIn(monthly_summary, m, c) = {Resummed(m, c)}
              ELSE TotalsIn(monthly_summary, m, c) = TotalsIn(call.summaries_before, m, c)

\* The digest of the four identity fields of a persisted transaction, as the
\* repository reads them
CanonicalHash(t) ==
    <<"base", <<t.date.month, t.date.day, t.date.year>>, t.description,
      [val |-> t.amount,
       scale |-> IF t.amount % 100 = 0 THEN 1 ELSE IF t.amount % 10 = 0 THEN 2 ELSE 3],
      t.source>>

\* C18: after any sequence of batch ingests and edits, the base_hash of every
\* persisted transaction is the canonical hash of its current date,
\* description, amount and source, and two persisted transactions with equal
\* four fields have equal base_hash, whatever their category, rank, batch id
\* or import timestamp.
C18_IdentityHashInvariant ==
    /\ \A i \in 1..Len(transactions) :
          transactions[i].base_hash = CanonicalHash(transactions[i])
    /\ \A i \in 1..Len(transactions) : \A j \in 1..Len(transactions) :
          (/\ transactions[i].date = transactions[j].date
           /\ transactions[i].description = transactions[j].description
           /\ transactions[i].amount = transactions[j].amount
           /\ transactions[i].source = transactions[j].source)
              => transactions[i].base_hash = transactions[j].base_hash

\* The calendar date a date text denotes
DenotedDate(text) ==
    IF text \in {"3/1/2024", "2024-03-01"} THEN <<2024, 3, 1>> ELSE <<2024, 3, 2>>

\* A text without its surrounding whitespace, in upper case
UpperTrim(text) ==
    CASE text \in {"Coffee Shop", " coffee shop "} -> "COFFEE SHOP"
      [] text = "Tea" -> "TEA"
      [] text \in {"chase", "CHASE"} -> "CHASE"

\* C19: two rows that denote the same date, the same description up to letter
\* case and surrounding whitespace, the same amount and the same source up to
\* letter case and surrounding whitespace get the identical identity hash.
C19_HashStableUnderFormatting ==
    call.op = "create_base_hash" =>
        \A a \in call.hashed : \A b \in call.hashed :
            (/\ DenotedDate(a.row.date) = DenotedDate(b.row.date)
             /\ UpperTrim(a.row.description) = UpperTrim(b.row.description)
             /\ a.row.amount.val = b.row.amount.val
             /\ UpperTrim(a.row.source) = UpperTrim(b.row.source))
                => a.base_hash = b.base_hash

\* The snapshots of an account in the calendar month of a date
SnapshotsInMonth(c) ==
    {b \in c.table :
        /\ b.account_id = c.account_id
        /\ <<b.balance_date.year, b.balance_date.month>> =
               <<c.balance_date.year, c.balance_date.month>>}

\* C20: check_monthly_duplicates answers is_duplicate = false with
\* recommendation safe_to_save if and only if the account has no snapshot in
\* the calendar month of the new date; when it has one, the result has
\* is_duplicate = true and one of the five conflict tags.  Stated for the
\* calls that exclude no snapshot, as every caller makes them.
C20_NoConflictIffMonthEmpty ==
    (call.op = "check_monthly_duplicates" /\ call.exclude_id = 0) =>
        /\ (~call.result.is_duplicate /\ call.result.recommendation = "safe_to_save")
              <=> SnapshotsInMonth(call) = {}
        /\ SnapshotsInMonth(call) # {} =>
              /\ call.result.is_duplicate
              /\ call.result.conflict_type \in
                     {"exact_duplicate", "same_date_different_amount",
                      "similar_monthly_balance", "monthly_update", "monthly_large_difference"}

\* The distance of two amounts
AmountDiff(a, b) == IF a < b THEN b - a ELSE a - b

\* The only snapshot of the month of a call, when it has a positive amount
OnlySnapshot(c) == CHOOSE b \in SnapshotsInMonth(c) : TRUE

HasOnlyPositiveSnapshot(c) ==
    /\ c.op = "check_monthly_duplicates"
    /\ c.exclude_id = 0
    /\ Cardinality(SnapshotsInMonth(c)) = 1
    /\ OnlySnapshot(c).balance_amount > 0

\* C21: when the account's only same-month snapshot has the new snapshot's
\* date and a positive amount, the result is exact_duplicate / block_save if
\* |existing - new| is at most 1% of existing, and
\* same_date_different_amount / require_confirmation otherwise.
C21_SameDateClassification ==
    (HasOnlyPositiveSnapshot(call)
        /\ OnlySnapshot(call).balance_date = call.balance_date) =>
        IF AmountDiff(OnlySnapshot(call).balance_amount, call.balance_amount) * 100
               <= OnlySnapshot(call).balance_amount
        THEN /\ call.result.conflict_type = "exact_duplicate"
             /\ call.result.recommendation = "block_save"
        ELSE /\ call.result.conflict_type = "same_date_different_amount"
             /\ call.result.recommendation = "require_confirmation"

\* C22: when the account's only same-month snapshot has another date and a
\* positive amount, with similarity = 1 - |existing - new| / existing the
\* result is similar_monthly_balance / warn_user for similarity >= 99%,
\* monthly_update / suggest_update for 95% <= similarity < 99%, and
\* monthly_large_difference / manual_review below 95%.
C22_SameMonthClassification ==
    (HasOnlyPositiveSnapshot(call)
        /\ OnlySnapshot(call).balance_date # call.balance_date) =>
        LET existing == OnlySnapshot(call).balance_amount
            diff == AmountDiff(existing, call.balance_amount)
        IN  IF diff * 100 <= existing
            THEN /\ call.result.conflict_type = "similar_monthly_balance"
                 /\ call.result.recommendation = "warn_user"
            ELSE IF diff * 100 <= existing * 5
            THEN /\ call.result.conflict_type = "monthly_update"
                 /\ call.result.recommendation = "suggest_update"
            ELSE /\ call.result.conflict_type = "monthly_large_difference"
                 /\ call.result.recommendation = "manual_review"

\* C24: when the month holds several snapshots of the account and one of
\* them has exactly the new snapshot's date, the result is computed against
\* that snapshot (exact_duplicate or same_date_different_amount), whatever
\* the order in which the store returns the month's snapshots.
C24_SameDateSnapshotDecides ==
    (/\ call.op = "check_monthly_duplicates"
     /\ call.exclude_id = 0
     /\ Cardinality(SnapshotsInMonth(call)) >= 2
     /\ \E b \in SnapshotsInMonth(call) : b.balance_date = call.balance_date) =>
        call.result.conflict_type \in {"exact_duplicate", "same_date_different_amount"}

\* The snapshots a portfolio handler found for the account and date it was given
SameDateBefore(c) ==
    {b \in c.balances_before :
        b.account_id = c.account_id /\ b.balance_date = c.balance_date}

\* The snapshots a portfolio handler found for the account in the month of its date
SameMonthBefore(c) ==
    {b \in c.balances_before :
        /\ b.account_id = c.account_id
        /\ b.balance_date.year = c.balance_date.year
        /\ b.balance_date.month = c.balance_date.month}

WritePaths ==
    {"add_manual_balance", "confirm_statement_extraction", "quick_save_statement",
     "save_reviewed_statement"}

\* C23: on every write path, the snapshot a handler found for the account and
\* date of its write has its amount replaced only if the handler classified
\* the write with check_monthly_duplicates first
C23_NoSilentOverwrite ==
    (/\ call.op \in WritePaths
     /\ \E b \in SameDateBefore(call) : b \notin portfolio_balances) => call.classified

\* C25: quick_save_statement with confirm_duplicates = false, on a statement
\* with an account, a date and a balance, when the account already has a
\* snapshot in the month of the statement: no snapshot is written, the
\* statement keeps its processing_status, and the answer is 409 or a
\* requires_confirmation result
C25_QuickSaveGate ==
    (/\ call.op = "quick_save_statement"
     /\ ~call.flag
     /\ call.status \notin {400, 404}
     /\ SameMonthBefore(call) # {}) =>
        /\ portfolio_balances = call.balances_before
        /\ statement_uploads = call.statements_before
        /\ (call.status = 409 \/ call.requires_confirmation)

\* The hashed fields of a persisted transaction
IdentityFields(t) == <<t.date, t.description, t.amount, t.source>>

\* C26: an edit that update accepted left no other persisted transaction
\* with the (date, description, amount, source) the edited record now has:
\* had there been one, update would have raised 'Updated transaction would
\* create a duplicate'
C26_EditNeverDuplicates ==
    (lastOp = "update" /\ edit.result = "ok") =>
        \A j \in 1..Len(transactions) :
            j # edit.id =>
                IdentityFields(transactions[j]) # IdentityFields(transactions[edit.id])

\* No edit so far, or the one edit named no field but the category
OnlyCategoryEdited == edits = 0 \/ DOMAIN edit.updates[1] = {"category"}

\* C27: a batch that was ingested to completion and is ingested again under a
\* new import timestamp, with nothing in between but edits of the category
\* of persisted rows: the second ingestion accepts no row and leaves the
\* transactions table as it was
C27_CategoryEditKeepsIdempotence ==
    [][ (/\ clock' # clock
         /\ upload.rows # <<>>
         /\ ~upload.raised
         /\ upload'.rows = upload.rows
         /\ OnlyCategoryEdited) =>
            /\ upload'.records_added = 0
            /\ transactions' = transactions ]_vars

\* The rows of a confirm_upload response flagged was_duplicate
FlaggedDuplicate(c) ==
    {i \in 1..Len(c.processed_transactions) : c.processed_transactions[i].was_duplicate}

\* C29: in a confirm_upload response that reports processed transactions, a
\* row is flagged was_duplicate exactly when save_many did not insert it, the
\* number of flagged rows is duplicate_transactions, and new_transactions +
\* duplicate_transactions = total_transactions
C29_DuplicateReportExact ==
    (/\ call.op = "confirm_upload"
     /\ call.status = 200
     /\ call.processed_transactions # <<>>) =>
        /\ FlaggedDuplicate(call) = (1..Len(call.processed_transactions)) \ call.saved
        /\ Cardinality(FlaggedDuplicate(call)) = call.duplicate_transactions
        /\ call.new_transactions + call.duplicate_transactions = call.total_transactions

\* The rows of a confirmed session that were flagged is_duplicate at preview
FlaggedAtPreview(c) ==
    {i \in 1..Len(c.session.transactions) : c.session.transactions[i].is_duplicate}

\* C28: a confirm_upload that answers for a session whose preview saw the
\* store as it is at the confirmation: the rows flagged is_duplicate at
\* preview are exactly the rows save_many did not insert
C28_PreviewAgreesWithConfirm ==
    (/\ call.op = "confirm_upload"
     /\ call.status = 200
     /\ call.session.seen = Len(call.store_before)) =>
        FlaggedAtPreview(call) = (1..Len(call.session.transactions)) \ call.saved

\* C30: a confirm_upload for a session id that a preview created more than
\* one hour before, or that an earlier confirm_upload completed, answers
\* SESSION_NOT_FOUND and leaves the transactions table as it was
C30_SessionsExpireAndAreConsumed ==
    (/\ call.op = "confirm_upload"
     /\ \/ call.now - call.session_id > SessionLifetime
        \/ call.session_id \in call.completed_before) =>
        /\ call.status = 404
        /\ call.error_code = "SESSION_NOT_FOUND"
        /\ transactions = call.store_before

====
